---- MODULE Spec2Model ----
(***************************************************************************)
(* Model of libiot's OTA driver (src/src/ota/mod.rs): Ota::new,            *)
(* Ota::cancel and Ota::run_http, with the HTTP client abstracted at the   *)
(* boundary of http.request (which returns a Response or a network error)  *)
(* and the storage modelled after the RAM storage of the tests.            *)
(*                                                                         *)
(* Text is modelled as sequences of one-character strings, bytes as        *)
(* integers 0..255, and u32 values of the CRC as pairs of 16-bit halves.   *)
(***************************************************************************)
EXTENDS Integers, Sequences, FiniteSets, TLC

(***************************************************************************)
(* Bounds of the model.                                                    *)
(***************************************************************************)
MaxSize == 2          \* largest firmware size tried
Capacity == 2         \* storage.capacity()
MaxBase == 1          \* largest base_offset tried
MaxChunk == 2         \* largest valid chunk_size tried
MaxRuns == 2          \* calls of run_http on one engine
MaxRespHeaders == 2   \* headers in one modelled response
MaxImage == 2         \* longest firmware image and chunk given to the platform
MaxPayload == 2       \* longest payload of an inbound PUBLISH
MaxPackets == 2       \* packets the broker puts on the stream
MaxBody == 2          \* longest body of a response sent to the HTTP client
MaxCrcLen == 3        \* longest buffer given to Crc32 on its own
MaxText == 3                  \* longest content of a quoted shell argument
MaxCalls == 2         \* requests made on one HTTP connection

(***************************************************************************)
(* Program constants.                                                      *)
(***************************************************************************)
MAX_HEADER_VALUE_LEN == 256
\* variant of MaxAttempts: one more attempt before giving up
MaxAttemptsFour == 3 + 1
\* variant of MaxAttempts: two more attempts before giving up
MaxAttemptsFive == 3 + 2
MaxAttempts == 3
ErasedByte == 255
ChunkLimit == 2048

\* Bytes a server puts in a body.
B1 == 49
B2 == 50
BodyBytes == {B1, B2}

None == -1            \* Option::None of an Option<usize>
UsizeMax == -2        \* usize::MAX as a firmware size: beyond the integers of
                      \* the model checker, so written as a number of its own

(***************************************************************************)
(* Text helpers (str::trim, to_ascii_lowercase, strip_prefix, split,       *)
(* parse::<usize>, Display of usize).                                      *)
(***************************************************************************)
DigitChars == <<"0", "1", "2", "3", "4", "5", "6", "7", "8", "9">>

DigitValue == [c \in {DigitChars[i] : i \in 1..10} |->
                  (CHOOSE i \in 1..10 : DigitChars[i] = c) - 1]

IsDigit(c) == c \in DOMAIN DigitValue

DigitVal(c) == DigitValue[c]

RECURSIVE Digits(_)
Digits(n) == IF n < 10 THEN <<DigitChars[n + 1]>>
             ELSE Digits(n \div 10) \o <<DigitChars[(n % 10) + 1]>>

\* A text (&str, heapless String, the bytes on the wire) is the sequence of
\* its bytes, and its length is str::len.  An ASCII byte is written as its
\* character, one without a TLA+ escape by name ("VT" is 0x0B); a byte
\* 0x80..0xFF is written "x" and its two hex digits.  A character beyond
\* ASCII is the bytes of its UTF-8 encoding.
HexDigits == <<"0", "1", "2", "3", "4", "5", "6", "7", "8", "9",
               "A", "B", "C", "D", "E", "F">>

HighByte(b) == "x" \o HexDigits[(b \div 16) + 1] \o HexDigits[(b % 16) + 1]

HighBytes == {HighByte(b) : b \in 128..255}

\* the value of a byte as far as UTF-8 decoding looks at it: its own above
\* 0x7F, and 0 for every ASCII byte
ByteValue(c) == IF c \in HighBytes THEN CHOOSE b \in 128..255 : HighByte(b) = c ELSE 0

\* char::is_whitespace, which str::trim uses: the characters with the Unicode
\* property White_Space, each as its UTF-8 bytes (U+0009..U+000D, U+0020,
\* U+0085, U+00A0, U+1680, U+2000..U+200A, U+2028, U+2029, U+202F, U+205F,
\* U+3000)
WhiteSpace ==
    {<<c>> : c \in {"\t", "\n", "VT", "\f", "\r", " "}}
    \cup {<<"xC2", "x85">>, <<"xC2", "xA0">>, <<"xE1", "x9A", "x80">>}
    \cup {<<"xE2", "x80", HighByte(b)>> : b \in 128..138}
    \cup {<<"xE2", "x80", "xA8">>, <<"xE2", "x80", "xA9">>, <<"xE2", "x80", "xAF">>,
          <<"xE2", "x81", "x9F">>, <<"xE3", "x80", "x80">>}

\* whether the bytes w are one white space character
IsSpace(w) == w \in WhiteSpace

\* the one member of a set of at most one positive number, 0 for none
TheOne(ns) == IF ns = {} THEN 0 ELSE CHOOSE n \in ns : TRUE

\* the length in bytes of the white space character s starts with / ends
\* with, 0 when it starts / ends with none
SpaceAtStart(s) == TheOne({n \in 1..3 : n <= Len(s) /\ IsSpace(SubSeq(s, 1, n))})

SpaceAtEnd(s) ==
    TheOne({n \in 1..3 : n <= Len(s) /\ IsSpace(SubSeq(s, Len(s) - n + 1, Len(s)))})

\* str::trim_start: s after its leading white space, n being the length of
\* its first character when that is white space
RECURSIVE TrimStart(_)
TrimStartFrom(s, n) == IF n = 0 THEN s ELSE TrimStart(SubSeq(s, n + 1, Len(s)))

TrimStart(s) == TrimStartFrom(s, SpaceAtStart(s))

\* str::trim_end
RECURSIVE TrimEnd(_)
TrimEndFrom(s, n) == IF n = 0 THEN s ELSE TrimEnd(SubSeq(s, 1, Len(s) - n))

TrimEnd(s) == TrimEndFrom(s, SpaceAtEnd(s))

Trim(s) == TrimEnd(TrimStart(s))

UpperChars == <<"A", "B", "C", "D", "E", "F", "G", "H", "I", "J", "K", "L", "M",
                "N", "O", "P", "Q", "R", "S", "T", "U", "V", "W", "X", "Y", "Z">>
LowerChars == <<"a", "b", "c", "d", "e", "f", "g", "h", "i", "j", "k", "l", "m",
                "n", "o", "p", "q", "r", "s", "t", "u", "v", "w", "x", "y", "z">>

UpperToLower == [c \in {UpperChars[i] : i \in 1..26} |->
                    LowerChars[CHOOSE i \in 1..26 : UpperChars[i] = c]]

LowerChar(c) == IF c \in DOMAIN UpperToLower THEN UpperToLower[c] ELSE c

ToAsciiLowercase(s) == [i \in 1..Len(s) |-> LowerChar(s[i])]

EqIgnoreAsciiCase(a, b) == ToAsciiLowercase(a) = ToAsciiLowercase(b)

HasPrefix(s, p) == Len(s) >= Len(p) /\ SubSeq(s, 1, Len(p)) = p

\* str::split(sep): the parts between separators, at least one part.
RECURSIVE SplitFrom(_, _, _)
SplitFrom(s, sep, cur) ==
    IF s = <<>> THEN <<cur>>
    ELSE IF Head(s) = sep THEN <<cur>> \o SplitFrom(Tail(s), sep, <<>>)
    ELSE SplitFrom(Tail(s), sep, Append(cur, Head(s)))

Split(s, sep) == SplitFrom(s, sep, <<>>)

RECURSIVE DigitsValue(_, _)
DigitsValue(s, acc) == IF s = <<>> THEN acc
                       ELSE DigitsValue(Tail(s), acc * 10 + DigitVal(Head(s)))

RECURSIVE StripZeros(_)
StripZeros(d) == IF d # <<>> /\ Head(d) = "0" THEN StripZeros(Tail(d)) ELSE d

\* whether the number written d is beyond the one written max (neither has
\* leading zeros): PosOverflow
Overflows(d, max) ==
    \/ Len(d) > Len(max)
    \/ /\ Len(d) = Len(max)
       /\ \E i \in 1..Len(d) :
              /\ \A j \in 1..(i - 1) : d[j] = max[j]
              /\ DigitVal(d[i]) > DigitVal(max[i])

\* str::parse of an unsigned integer type whose MAX is written max: an
\* optional '+', then one or more decimal digits, leading zeros allowed; None
\* when there is no digit, another character, or the value is beyond MAX
ParseUnsigned(s, max) ==
    LET d == IF s # <<>> /\ Head(s) = "+" THEN Tail(s) ELSE s
    IN IF d # <<>> /\ \A i \in 1..Len(d) : IsDigit(d[i])
       THEN IF Overflows(StripZeros(d), max) THEN None ELSE DigitsValue(StripZeros(d), 0)
       ELSE None

\* usize::MAX of the 64-bit build, in decimal
UsizeMaxDigits == <<"1", "8", "4", "4", "6", "7", "4", "4", "0", "7",
                    "3", "7", "0", "9", "5", "5", "1", "6", "1", "5">>

\* str::parse::<usize>
ParseUsize(s) == ParseUnsigned(s, UsizeMaxDigits)

(***************************************************************************)
(* parse_content_range: "bytes start-end/total" or "bytes start-end/*".    *)
(***************************************************************************)
BytesWord == <<"b", "y", "t", "e", "s">>

NoParse == [ok |-> FALSE, start |-> 0, end |-> 0, total |-> None]

ParseTotal(total_part, start, end) ==
    IF total_part = <<"*">> THEN [ok |-> TRUE, start |-> start, end |-> end, total |-> None]
    ELSE LET t == ParseUsize(total_part)
         IN IF t = None THEN NoParse
            ELSE IF start >= t \/ end >= t THEN NoParse
            ELSE [ok |-> TRUE, start |-> start, end |-> end, total |-> t]

parse_content_range(value) ==
    LET v == Trim(value)
        lower == ToAsciiLowercase(v)
    IN IF ~HasPrefix(lower, BytesWord) THEN NoParse
       ELSE LET v_rest == Trim(SubSeq(v, Len(BytesWord) + 1, Len(v)))
                parts == Split(v_rest, "/")
            IN IF Len(parts) < 2 THEN NoParse
               ELSE LET range_part == Trim(parts[1])
                        total_part == Trim(parts[2])
                        se == Split(range_part, "-")
                    IN IF Len(se) < 2 THEN NoParse
                       ELSE LET start == ParseUsize(Trim(se[1]))
                                end == ParseUsize(Trim(se[2]))
                            IN IF start = None \/ end = None THEN NoParse
                               ELSE IF end < start THEN NoParse
                               ELSE ParseTotal(total_part, start, end)

(***************************************************************************)
(* Validation of a 206 response in run_http: the loop over the response    *)
(* headers that sets content_range_ok and header_total.                    *)
(***************************************************************************)
ContentRangeName == <<"C", "o", "n", "t", "e", "n", "t", "-", "R", "a", "n", "g", "e">>

IsContentRange(h) == EqIgnoreAsciiCase(h.name, ContentRangeName)

RangeMatches(p, start, end) == p.start = start /\ p.end = end

\* One iteration of `for h in &resp.headers`; acc = [ok, total].
HeaderStep(acc, h, start, end) ==
    IF IsContentRange(h)
    THEN LET p == parse_content_range(h.value)
         IN IF p.ok
            THEN [ok |-> acc.ok \/ RangeMatches(p, start, end), total |-> p.total]
            ELSE acc
    ELSE acc

RECURSIVE HeaderScan(_, _, _, _)
HeaderScan(acc, headers, start, end) ==
    IF headers = <<>> THEN acc
    ELSE HeaderScan(HeaderStep(acc, Head(headers), start, end), Tail(headers), start, end)

\* TRUE iff the header checks of the 206 arm pass.
ContentRangeAccepted(headers, start, end, size) ==
    LET r == HeaderScan([ok |-> FALSE, total |-> None], headers, start, end)
    IN r.ok /\ (r.total # None => r.total = size)

\* variant of StatusAccepted: a full-body 200 answer is taken as well
StatusAcceptedWith200(status) == status = 206 \/ status = 200

\* the arms of `match resp.status_code`
StatusAccepted(status) == status = 206

Min(a, b) == IF a < b THEN a ELSE b

\* chunk = &resp.body[..min(resp.body.len(), len)]
ChunkOf(body, len) == SubSeq(body, 1, Min(Len(body), len))

(***************************************************************************)
(* Crc32 (IEEE, reversed polynomial 0xEDB88320).  A u32 is a record of two *)
(* 16-bit halves [hi, lo].                                                 *)
(***************************************************************************)
RECURSIVE XorBits(_, _, _)
XorBits(a, b, n) ==
    IF n = 0 THEN 0
    ELSE ((a + b) % 2) + 2 * XorBits(a \div 2, b \div 2, n - 1)

Xor16(a, b) == XorBits(a, b, 16)

Xor32(x, y) == [hi |-> Xor16(x.hi, y.hi), lo |-> Xor16(x.lo, y.lo)]

Shr32(x, k) == [hi |-> x.hi \div (2 ^ k),
                lo |-> (x.lo \div (2 ^ k)) + (x.hi % (2 ^ k)) * (2 ^ (16 - k))]

Poly == [hi |-> 60856, lo |-> 33568]          \* 0xEDB88320
AllOnes == [hi |-> 65535, lo |-> 65535]       \* 0xFFFF_FFFF

RECURSIVE TableLoop(_, _)
TableLoop(c, j) ==
    IF j = 8 \/ c.lo < 0 THEN c
    ELSE TableLoop(IF c.lo % 2 # 0 THEN Xor32(Shr32(c, 1), Poly) ELSE Shr32(c, 1), j + 1)

\* Crc32.table, built once by Crc32::new
CrcTable == [i \in 0..255 |-> TableLoop([hi |-> 0, lo |-> i], 0)]

CrcNew == AllOnes

CrcUpdateByte(value, b) ==
    LET idx == Xor16(value.lo, b) % 256
    IN Xor32(CrcTable[idx], Shr32(value, 8))

\* variant of CrcUpdate: every update starts again from the initial value
RECURSIVE CrcFromStart(_, _)
CrcFromStart(acc, data) ==
    IF data = <<>> \/ acc.lo < 0 THEN acc
    ELSE CrcFromStart(CrcUpdateByte(acc, Head(data)), Tail(data))
CrcUpdateRestart(value, data) == CrcFromStart(AllOnes, data)

RECURSIVE CrcUpdate(_, _)
\* (value.lo < 0 never holds: the test makes TLC evaluate value before the
\* recursive call, which keeps the evaluation shallow)
CrcUpdate(value, data) ==
    IF data = <<>> \/ value.lo < 0 THEN value
    ELSE CrcUpdate(CrcUpdateByte(value, Head(data)), Tail(data))

CrcFinalize(value) == Xor32(value, AllOnes)

Crc32Of(data) == CrcFinalize(CrcUpdate(CrcNew, data))

\* Option<u32> of HttpSource.crc32
NoCrc == [some |-> FALSE, v |-> [hi |-> 0, lo |-> 0]]
SomeCrc(x) == [some |-> TRUE, v |-> x]


(***************************************************************************)
(* State.                                                                  *)
(***************************************************************************)
VARIABLES
    cfg,          \* Ota.cfg: [chunk_size, erase_before_write, verify_crc32]
    state,        \* Ota.state
    canceled,     \* Ota.canceled
    newResult,    \* what the last Ota::new returned: "Ok" or "InvalidConfig"
    pc,           \* position of run_http: "idle" (no call active), "loop", "request"
    src,          \* HttpSource of the active call: [size, host_len, crc32]
    base_offset,  \* base_offset of the active call
    downloaded,   \* local `downloaded`
    attempt,      \* local `attempt` of the retry loop
    crc,          \* local `crc` (Crc32.value)
    storage,      \* the storage bytes, offsets 0..Capacity-1
    result,       \* what the last run_http returned (tag "none" before the first)
    \* observation of one call of run_http, reset at every call
    runs,         \* calls of run_http on this engine
    callState,    \* Ota.state when run_http was called
    cancelCalled, \* TRUE once cancel() was called on this engine
    callCanceled, \* cancelCalled when run_http was called
    requested,    \* TRUE once http.request was called
    chunkReqs,    \* http.request calls for the current chunk
    erases,       \* sequence of storage.erase calls [from, to]
    writes,       \* sequence of storage.write calls [off, data]
    bodies,       \* concatenation of the bodies of the 206 responses a chunk was
                  \* taken from (all 206 responses received, when the run returns Ok)
    lastErr,      \* error of the last failed http.request for the current chunk
    resp,         \* summary of the response received for the current chunk
    mqtt,         \* TRUE when the call was given a progress publisher (Some(mp))
    published,    \* sequence of publish_progress calls [bytes, total, state]
    trail         \* values assigned to Ota.state by the call, in order

otaVars == <<cfg, state, canceled, newResult, pc, src, base_offset, downloaded, attempt,
          crc, storage, result, runs, callState, cancelCalled, callCanceled, requested, chunkReqs,
          erases, writes, bodies, lastErr, resp, mqtt, published, trail>>

engineVars == <<cfg, state, canceled>>
localVars == <<src, base_offset, downloaded, attempt, crc>>
obsVars == <<runs, callState, cancelCalled, callCanceled, requested, chunkReqs, erases, writes,
             bodies, lastErr, resp>>
pubVars == <<mqtt, published, trail>>

(***************************************************************************)
(* The A/B platform of the tests (MockPlatform) and the event-driven agent *)
(* and manager that run on it.                                             *)
(***************************************************************************)
VARIABLES
    active_partition_index,  \* MockPlatform.active_partition_index
    boot_partition_index,    \* MockPlatform.boot_partition_index
    ota_data,                \* MockPlatform.ota_data: [state, version, checksum]
    firmware,                \* MockPlatform.firmware: its length and its cells
                             \* that are not 0, by offset
    agent_state,             \* OtaAgent state: [tag, fw]
    \* observation
    record_writes,  \* set_ota_data calls since the current update began
    new_before,     \* ota_data before OtaManager::new, when that was the last
                    \* operation on the agent ("-" otherwise)
    new_writes,     \* set_ota_data calls made by that OtaManager::new
    step,           \* the last process_event: [from, event, fw, to, ok]
    start_active    \* active_partition_index when the current update began

platformVars == <<active_partition_index, boot_partition_index, ota_data, firmware>>
agentObs == <<record_writes, new_before, new_writes, step, start_active>>
agentVars == <<platformVars, agent_state, agentObs>>

(***************************************************************************)
(* The MQTT client (src/src/network/application/mqtt/client.rs) on its     *)
(* transport.                                                              *)
(***************************************************************************)
VARIABLES
    mq_in,         \* bytes the transport has still to deliver to the client
    mq_result,     \* what the last poll returned: [tag, topic, payload]
    \* observation
    mq_sent,       \* the packets the broker put on the stream, in order
    mq_polls,      \* calls of poll so far
    mq_len_reads,  \* reads of a remaining-length byte made by the last poll
    mq_len         \* remaining_len as the last poll decoded it (None: not decoded)

mqttVars == <<mq_in, mq_result, mq_sent, mq_polls, mq_len_reads, mq_len>>

(***************************************************************************)
(* The HTTP client (src/src/network/application/http/client.rs) on its     *)
(* transport.  Its bytes are one-character strings.                        *)
(***************************************************************************)
VARIABLES
    hc_pc,      \* position of Client::request: "idle", "headers", "body", "done"
    hc_req,     \* request_buf of the call
    hc_out,     \* bytes of the call the transport has accepted
    hc_in,      \* bytes the transport has still to deliver to the client
    hc_buf,     \* response_buf[..total_read]
    hc_parsed,  \* status_code, response_headers and content_length once parsed
    hc_body,    \* local `body`
    hc_result,  \* what the call returned: [tag, status, headers, body]
    hc_resp,    \* observation: the response the server sent
    hc_conn     \* observation: [calls, sound, all_ok], the requests made on
                \* the connection, whether each response so far declared the
                \* length of its body, and whether each earlier request
                \* returned Ok

httpVars == <<hc_pc, hc_req, hc_out, hc_in, hc_buf, hc_parsed, hc_body, hc_result, hc_resp,
              hc_conn>>

(***************************************************************************)
(* The calls of the MQTT client that write: connect, publish, subscribe,   *)
(* and the progress publisher of the OTA driver on top of publish.         *)
(***************************************************************************)
VARIABLES
    ms_connected,  \* TRUE when Client::connect has returned a client
    ms_call,       \* the last call: [op, topic, payload, qos, reply]
    ms_result,     \* what it returned ("Panic" when it panicked)
    ms_written,    \* the buffers it handed to connection.write, in order
    ms_reads       \* the calls of connection.read it made

sessVars == <<ms_connected, ms_call, ms_result, ms_written, ms_reads>>

(***************************************************************************)
(* The bounds check of run_http on numbers as wide as the target's.        *)
(***************************************************************************)
VARIABLES
    pf_in,   \* the arguments: [base, size, capacity, usize_bits, erase]
    pf_out   \* the outcome: [result, erased, erase_to]

pfVars == <<pf_in, pf_out>>

(***************************************************************************)
(* One whole call of run_http as a function of what its requests, storage  *)
(* calls and publish calls return.                                         *)
(***************************************************************************)
VARIABLES
    rp_in,   \* the arguments and the environment of the call
    rp_out   \* [given, always]: the outcome with the publisher results of
             \* rp_in, and with a publisher that always returns Ok

runVars == <<rp_in, rp_out>>

(***************************************************************************)
(* Crc32 on its own.                                                       *)
(***************************************************************************)
VARIABLES
    crc_in,   \* [data, k]: the buffer and the split point
    crc_out   \* [whole, split]: finalize after one update with data, and
              \* after updates with data[0..k] and data[k..N]

crcVars == <<crc_in, crc_out>>

(***************************************************************************)
(* State of the Shell, and what one call of Shell::input did.              *)
(***************************************************************************)
VARIABLES
    sh_buffer,  \* Shell.buffer[..buffer_len]
    sh_in,      \* the call of input: [data, form, text]
    sh_calls,   \* what process_command did for each line of the data, in order
    sh_result   \* the ShellResult input returned

shellVars == <<sh_buffer, sh_in, sh_calls, sh_result>>

\* the components that are functions of their arguments
pureVars == <<pfVars, runVars, crcVars, shellVars>>

\* the variables that no operation of the OTA driver touches
sideVars == <<agentVars, mqttVars, httpVars, sessVars, pureVars>>

vars == <<otaVars, sideVars>>

R(tag, err) == [tag |-> tag, err |-> err]

Ok == R("Ok", "-")
NoResult == R("none", "-")
NoResp == [status |-> 0, crHeaders |-> 0, crMatch |-> FALSE, bodyLen |-> 0,
           len |-> 0, accepted |-> FALSE, written |-> FALSE]

TerminalStates == {"Completed", "Failed", "Canceled"}
\* the errors http.request is made to return
NetErrors == {"ReadError", "ProtocolError", "ConnectionClosed", "WriteError"}

ConfigInputs == [chunk_size : {0} \cup (1..MaxChunk) \cup {ChunkLimit, ChunkLimit + 1},
                 erase_before_write : BOOLEAN, verify_crc32 : BOOLEAN]

\* variant of ValidConfig: no upper limit on chunk_size
ValidConfigNoLimit(c) == ~(c.chunk_size = 0)

\* Ota::new
ValidConfig(c) == ~(c.chunk_size = 0 \/ c.chunk_size > ChunkLimit)

OldByte == 0

OtaInit ==
    /\ cfg \in {c \in ConfigInputs : ValidConfig(c)}
    /\ state = "Idle"
    /\ canceled = FALSE
    /\ newResult = "Ok"
    /\ pc = "idle"
    /\ src = [size |-> 0, host_len |-> 0, crc32 |-> NoCrc]
    /\ base_offset = 0
    /\ downloaded = 0
    /\ attempt = 0
    /\ crc = CrcNew
    /\ storage = [i \in 0..(Capacity - 1) |-> OldByte]
    /\ result = NoResult
    /\ runs = 0
    /\ callState = "-"
    /\ cancelCalled = FALSE
    /\ callCanceled = FALSE
    /\ requested = FALSE
    /\ chunkReqs = 0
    /\ erases = <<>>
    /\ writes = <<>>
    /\ bodies = <<>>
    /\ lastErr = "-"
    /\ resp = NoResp
    /\ mqtt = FALSE
    /\ published = <<>>
    /\ trail = <<>>

ResetObs ==
    /\ runs' = 0
    /\ callState' = "-"
    /\ cancelCalled' = FALSE
    /\ callCanceled' = FALSE
    /\ requested' = FALSE
    /\ chunkReqs' = 0
    /\ erases' = <<>>
    /\ writes' = <<>>
    /\ bodies' = <<>>
    /\ lastErr' = "-"
    /\ resp' = NoResp
    /\ mqtt' = FALSE
    /\ published' = <<>>
    /\ trail' = <<>>

\* Ota::new(cfg): a new engine replaces the old one when construction succeeds.
\* The model follows one engine from its construction on, so constructions
\* happen before the first run.
OtaNew(c) ==
    /\ pc = "idle"
    /\ runs = 0
    /\ UNCHANGED sideVars
    /\ IF ValidConfig(c)
       THEN /\ cfg' = c
            /\ state' = "Idle"
            /\ canceled' = FALSE
            /\ newResult' = "Ok"
            /\ result' = NoResult
            /\ ResetObs
            /\ UNCHANGED <<pc, localVars, storage>>
       ELSE /\ newResult' = "InvalidConfig"
            /\ UNCHANGED <<engineVars, pc, localVars, storage, result, obsVars, pubVars>>

\* Ota::cancel.  It takes &mut self, as run_http does, so it runs only while
\* no call of run_http is active.
\* variant of WriteOffset: every chunk is written at base_offset
WriteOffsetBase(base, start) == base

\* abs_off = base_offset.checked_add(start_u32)
WriteOffset(base, start) == base + start

\* variant of CancelValue: cancel() fails to latch the flag
CancelValueUnset == FALSE

\* the value cancel() stores in Ota.canceled
CancelValue == TRUE

Cancel ==
    /\ pc = "idle"
    /\ UNCHANGED sideVars
    /\ canceled' = CancelValue
    /\ cancelCalled' = TRUE
    /\ UNCHANGED <<cfg, state, newResult, pc, localVars, storage, result>>
    /\ UNCHANGED <<runs, callState, callCanceled, requested, chunkReqs, erases, writes,
                   bodies, lastErr, resp, pubVars>>

(***************************************************************************)
(* run_http, first part: validation, cancel check, erase.                  *)
(***************************************************************************)
\* variant of Preflight: the end of the image is not compared with the capacity
PreflightNoCapacity(size, base, isCanceled) ==
    IF size = 0 THEN "InvalidConfig"
    ELSE IF isCanceled THEN "Canceled"
    ELSE "go"

\* Outcome of lines 205-227: "InvalidConfig", "Overflow" (a checked_add
\* fails and `?` returns InvalidConfig with the state as it was), "Canceled"
\* or "go".  The size UsizeMax stands for usize::MAX: added to a base_offset
\* of 1 or more it overflows, and it is above every capacity of the model.
Preflight(size, base, isCanceled) ==
    IF size = 0 THEN "InvalidConfig"
    ELSE IF size = UsizeMax /\ base >= 1 THEN "Overflow"
    ELSE IF size = UsizeMax \/ base + size > Capacity THEN "InvalidConfig"
    ELSE IF isCanceled THEN "Canceled"
    ELSE "go"

\* variant of EraseStorage: the whole storage is erased
EraseStorageAll(st, from, to) == [i \in 0..(Capacity - 1) |-> ErasedByte]

\* BlockingErase::erase of the RAM storage: [from, to) becomes 0xFF.
EraseStorage(st, from, to) ==
    [i \in 0..(Capacity - 1) |-> IF i >= from /\ i < to THEN ErasedByte ELSE st[i]]

\* Storage::write of the RAM storage.
WriteStorage(st, off, data) ==
    [i \in 0..(Capacity - 1) |->
        IF i >= off /\ i < off + Len(data) THEN data[i - off + 1] ELSE st[i]]

Return(st, res) ==
    /\ state' = st
    /\ result' = res
    /\ pc' = "idle"

RunHttpCall(size, base, host_len, crc32, eraseOk, withMqtt) ==
    /\ pc = "idle"
    /\ newResult = "Ok"
    /\ runs < MaxRuns
    /\ UNCHANGED sideVars
    /\ mqtt' = withMqtt
    /\ published' = <<>>
    /\ runs' = runs + 1
    /\ callState' = state
    /\ callCanceled' = cancelCalled
    /\ requested' = FALSE
    /\ chunkReqs' = 0
    /\ writes' = <<>>
    /\ bodies' = <<>>
    /\ lastErr' = "-"
    /\ resp' = NoResp
    /\ src' = [size |-> size, host_len |-> host_len, crc32 |-> crc32]
    /\ base_offset' = base
    /\ downloaded' = 0
    /\ attempt' = 0
    /\ crc' = CrcNew
    /\ UNCHANGED <<cfg, canceled, newResult, cancelCalled>>
    /\ LET pre == Preflight(size, base, canceled)
       IN IF pre = "InvalidConfig"
          THEN Return("Failed", R("InvalidConfig", "-"))
               /\ trail' = <<"Failed">>
               /\ erases' = <<>> /\ UNCHANGED storage
          ELSE IF pre = "Overflow"
          THEN Return(state, R("InvalidConfig", "-"))
               /\ trail' = <<>>
               /\ erases' = <<>> /\ UNCHANGED storage
          ELSE IF pre = "Canceled"
          THEN Return("Canceled", R("Canceled", "-"))
               /\ trail' = <<"Canceled">>
               /\ erases' = <<>> /\ UNCHANGED storage
          ELSE IF cfg.erase_before_write
          THEN IF canceled
               THEN Return("Canceled", R("Canceled", "-"))
                    /\ trail' = <<"Erasing", "Canceled">>
                    /\ erases' = <<>> /\ UNCHANGED storage
               ELSE /\ erases' = <<[from |-> base, to |-> base + size]>>
                    /\ IF eraseOk
                       THEN /\ storage' = EraseStorage(storage, base, base + size)
                            /\ state' = "Downloading"
                            /\ trail' = <<"Erasing", "Downloading">>
                            /\ pc' = "loop"
                            /\ result' = NoResult
                       ELSE /\ Return("Failed", R("Storage", "EraseError"))
                            /\ trail' = <<"Erasing", "Failed">>
                            /\ UNCHANGED storage
          ELSE /\ erases' = <<>>
               /\ state' = "Downloading"
               /\ trail' = <<"Downloading">>
               /\ pc' = "loop"
               /\ result' = NoResult
               /\ UNCHANGED storage

(***************************************************************************)
(* run_http, the download loop.                                            *)
(***************************************************************************)
ChunkLen == Min(cfg.chunk_size, src.size - downloaded)   \* `len`
ChunkStart == downloaded                                 \* `start`
ChunkEnd == ChunkStart + ChunkLen - 1                    \* `end`, inclusive

\* String::<MAX_HEADER_VALUE_LEN>::try_from(source.host)
HostFits(host_len) == host_len <= MAX_HEADER_VALUE_LEN

\* state_str of publish_progress
StateStr ==
    [s \in {"Idle", "Erasing", "Downloading", "Verifying", "Finalizing", "Completed",
            "Failed", "Canceled"} |->
        CASE s = "Idle" -> "idle"
          [] s = "Erasing" -> "erasing"
          [] s = "Downloading" -> "downloading"
          [] s = "Verifying" -> "verifying"
          [] s = "Finalizing" -> "finalizing"
          [] s = "Completed" -> "completed"
          [] s = "Failed" -> "failed"
          [] s = "Canceled" -> "canceled"]

\* The Body that publish_progress encodes for Progress {bytes_total:
\* source.size, bytes_downloaded: bytes, state: st}.
Progress(bytes, st) == [bytes |-> bytes, total |-> src.size, state |-> StateStr[st]]

\* variant of Publish: every progress event is published twice
PublishTwice(log, events) == IF mqtt THEN log \o events \o events ELSE log

\* `if let Some(mp) = mqtt.as_deref_mut() { let _ = mp.publish_progress(..) }`
Publish(log, events) == IF mqtt THEN log \o events ELSE log

\* `self.cfg.verify_crc32` and `if let Some(expected) = source.crc32`
VerifyChecked == cfg.verify_crc32 /\ src.crc32.some

\* variant of VerifyMismatch: the comparison is left out
VerifyMismatchNever(value, expected) == FALSE

\* actual != expected of the Verify step
VerifyMismatch(value, expected) == CrcFinalize(value) # expected

\* Top of `while downloaded < source.size`: cancel check and request headers;
\* after the loop: Verify, Finalize, Completed.
LoopTop ==
    /\ pc = "loop"
    /\ UNCHANGED sideVars
    /\ UNCHANGED <<cfg, canceled, newResult, src, base_offset, downloaded, crc, storage>>
    /\ UNCHANGED <<runs, callState, cancelCalled, callCanceled, requested, erases,
                   writes, bodies, mqtt>>
    /\ IF downloaded < src.size
       THEN IF canceled
            THEN Return("Canceled", R("Canceled", "-"))
                 /\ trail' = Append(trail, "Canceled")
                 /\ UNCHANGED <<attempt, chunkReqs, lastErr, resp, published>>
            ELSE IF ~HostFits(src.host_len)
            THEN Return(state, R("Protocol", "-"))
                 /\ UNCHANGED <<attempt, chunkReqs, lastErr, resp, published, trail>>
            ELSE /\ attempt' = 0
                 /\ chunkReqs' = 0
                 /\ lastErr' = "-"
                 /\ resp' = NoResp
                 /\ pc' = "request"
                 /\ UNCHANGED <<state, result, published, trail>>
       ELSE /\ UNCHANGED <<attempt, chunkReqs, lastErr, resp>>
            /\ IF VerifyChecked /\ VerifyMismatch(crc, src.crc32.v)
               THEN /\ Return("Failed", R("VerifyFailed", "-"))
                    /\ trail' = trail \o <<"Verifying", "Failed">>
                    /\ published' = Publish(published, <<Progress(src.size, "Failed")>>)
               ELSE /\ Return("Completed", Ok)
                    /\ trail' = trail \o <<"Verifying", "Finalizing", "Completed">>
                    /\ published' = Publish(published, <<Progress(src.size, "Finalizing"),
                                                         Progress(src.size, "Completed")>>)

\* Number of Content-Range headers of a response, and whether one of them
\* states the requested range and an admissible total (used to observe).
CountContentRange(headers) ==
    Cardinality({i \in 1..Len(headers) : IsContentRange(headers[i])})

SomeHeaderMatches(headers, start, end, size) ==
    \E i \in 1..Len(headers) :
        /\ IsContentRange(headers[i])
        /\ LET p == parse_content_range(headers[i].value)
           IN p.ok /\ p.start = start /\ p.end = end
              /\ (p.total = None \/ p.total = size)

\* accepted: the response passed the checks and storage.write was called;
\* written: that write succeeded.
Summary(r, len, accepted, written) ==
    [status |-> r.status,
     crHeaders |-> CountContentRange(r.headers),
     crMatch |-> SomeHeaderMatches(r.headers, ChunkStart, ChunkEnd, src.size),
     bodyLen |-> Len(r.body), len |-> len, accepted |-> accepted, written |-> written]

\* http.request returned Err(e): the retry loop.
RequestFailed(e) ==
    /\ attempt' = attempt + 1
    /\ lastErr' = e
    /\ UNCHANGED <<downloaded, crc, storage, writes, bodies, resp, published>>
    /\ IF attempt + 1 >= MaxAttempts
       THEN Return("Failed", R("Network", e)) /\ trail' = Append(trail, "Failed")
       ELSE UNCHANGED <<state, result, pc, trail>>

\* Whether a storage.erase or storage.write succeeds: the first call of
\* run_http meets both outcomes, a later call a storage that works.
StorageOutcomes == IF runs = 1 THEN BOOLEAN ELSE {TRUE}

\* http.request returned Ok(r): validation, storage write, CRC and counters.
ResponseReceived(r) ==
    LET len == ChunkLen
        chunk == ChunkOf(r.body, len)
        abs_off == WriteOffset(base_offset, ChunkStart)
        reject(res) == /\ Return("Failed", res)
                       /\ trail' = Append(trail, "Failed")
                       /\ resp' = Summary(r, len, FALSE, FALSE)
                       /\ UNCHANGED <<downloaded, crc, storage, writes, bodies, published>>
    IN /\ UNCHANGED <<attempt, lastErr>>
       /\ IF ~StatusAccepted(r.status)
          THEN reject(R("Network", "ProtocolError"))
          ELSE IF ~ContentRangeAccepted(r.headers, ChunkStart, ChunkEnd, src.size)
          THEN reject(R("Network", "ProtocolError"))
          ELSE IF chunk = <<>>
          THEN reject(R("Network", "ReadError"))
          ELSE IF r.status = 206 /\ Len(chunk) # len
          THEN reject(R("Network", "ProtocolError"))
          ELSE IF base_offset + ChunkStart + Len(chunk) > base_offset + src.size
          THEN reject(R("InvalidConfig", "-"))
          ELSE /\ writes' = Append(writes, [off |-> abs_off, data |-> chunk])
               /\ bodies' = bodies \o r.body
               /\ \E writeOk \in StorageOutcomes :
                  IF writeOk /\ abs_off + Len(chunk) <= Capacity
                  THEN /\ storage' = WriteStorage(storage, abs_off, chunk)
                       /\ crc' = CrcUpdate(crc, chunk)
                       /\ downloaded' = downloaded + Len(chunk)
                       /\ resp' = Summary(r, len, TRUE, TRUE)
                       /\ published' = Publish(published,
                              <<Progress(downloaded + Len(chunk), "Downloading")>>)
                       /\ pc' = "loop"
                       /\ UNCHANGED <<state, result, trail>>
                  ELSE /\ Return("Failed", R("Storage", "WriteError"))
                       /\ trail' = Append(trail, "Failed")
                       /\ resp' = Summary(r, len, TRUE, FALSE)
                       /\ UNCHANGED <<downloaded, crc, storage, published>>

(***************************************************************************)
(* What a server may answer to the request for [start, end] of size bytes. *)
(***************************************************************************)
FmtContentRange(unit, s, e, total) ==
    unit \o <<" ">> \o Digits(s) \o <<"-">> \o Digits(e) \o <<"/">> \o total

LowerName == ToAsciiLowercase(ContentRangeName)
UpperBytesWord == <<"B", "Y", "T", "E", "S">>
LengthName == <<"C", "o", "n", "t", "e", "n", "t", "-", "L", "e", "n", "g", "t", "h">>

HeaderChoices(start, end, size) ==
    { [name |-> ContentRangeName, value |-> FmtContentRange(BytesWord, start, end, Digits(size))],
      [name |-> LowerName, value |-> FmtContentRange(UpperBytesWord, start, end, <<"*">>)],
      [name |-> ContentRangeName, value |-> FmtContentRange(BytesWord, start, end, Digits(size + 1))],
      [name |-> ContentRangeName, value |-> FmtContentRange(BytesWord, start + 1, end + 1, Digits(size))] }

SeqsUpTo(S, n) == UNION {[1..k -> S] : k \in 0..n}

\* Every body of len bytes, one of each shorter length, and one that is a
\* byte too long.
BodyChoices(len) ==
    [1..len -> BodyBytes] \cup {[i \in 1..k |-> B1] : k \in 0..(len - 1)}
                         \cup {[i \in 1..(len + 1) |-> B2]}

\* The Content-Range header a range server sends for the request.
ExactHeader(start, end, size) ==
    [name |-> ContentRangeName, value |-> FmtContentRange(BytesWord, start, end, Digits(size))]

\* 206 answers: every list of headers with a body of the length asked for,
\* and every body with the Content-Range asked for; 200 answers (the server
\* ignored the Range header) without headers or with that Content-Range.
Responses(start, end, size, len) ==
    [status : {206},
     headers : SeqsUpTo(HeaderChoices(start, end, size), MaxRespHeaders),
     body : {[i \in 1..len |-> B1]}]
    \cup
    [status : {206},
     headers : {<<ExactHeader(start, end, size)>>},
     body : BodyChoices(len)]
    \cup
    [status : {200},
     headers : {<<>>, <<ExactHeader(start, end, size)>>},
     body : BodyChoices(len)]

\* The first call of run_http meets every server behaviour above; a later call
\* on the same engine meets a server that answers each range as asked.
HonestResponse(start, end, size, len) ==
    [status |-> 206,
     headers |-> <<[name |-> ContentRangeName,
                    value |-> FmtContentRange(BytesWord, start, end, Digits(size))],
                   [name |-> LengthName, value |-> Digits(len)]>>,
     body |-> [i \in 1..len |-> B1]]

ServerErrors == IF runs = 1 THEN NetErrors ELSE {}

ServerResponses(start, end, size, len) ==
    IF runs = 1 THEN Responses(start, end, size, len)
    ELSE {HonestResponse(start, end, size, len)}

\* One call of http.request and what run_http does with its result.
HttpRequest ==
    /\ pc = "request"
    /\ UNCHANGED sideVars
    /\ requested' = TRUE
    /\ chunkReqs' = chunkReqs + 1
    /\ UNCHANGED <<cfg, canceled, newResult, src, base_offset, runs, callState,
                   cancelCalled, callCanceled, erases, mqtt>>
    /\ \/ \E e \in ServerErrors : RequestFailed(e)
       \/ \E r \in ServerResponses(ChunkStart, ChunkEnd, src.size, ChunkLen) :
              ResponseReceived(r)

(***************************************************************************)
(* MockPlatform (src/tests/ota.rs) and, on top of it, the event-driven     *)
(* OtaAgent and the OtaManager.  The platform is the test's; the agent and *)
(* the manager follow the specification's section 4.5 and what the tests   *)
(* observe of them.                                                        *)
(***************************************************************************)
ZeroSum == [hi |-> 0, lo |-> 0]

PartSize == 4096      \* `size: 4096` of both partitions; the second starts there

Partitions == [i \in {0, 1} |-> [start |-> i * PartSize, size |-> PartSize]]

get_active_partition == Partitions[active_partition_index]
get_inactive_partition == Partitions[1 - active_partition_index]

\* set_boot_partition: the index it stores, None for PlatformError
BootIndexOf(partition) ==
    IF partition = Partitions[0] THEN 0
    ELSE IF partition = Partitions[1] THEN 1
    ELSE None

OtaData(st, version, checksum) == [state |-> st, version |-> version, checksum |-> checksum]

\* The array `firmware: [u8; 8192]` is held as its length and the cells that
\* are not 0: FirmwareArray(len, at) is the array of len bytes with at[i] at
\* offset i, and ByteAt reads one cell.
FirmwareArray(len, at) ==
    [len |-> len, cells |-> [i \in {j \in DOMAIN at : at[j] # 0} |-> at[i]]]

ByteAt(fwArray, i) == IF i \in DOMAIN fwArray.cells THEN fwArray.cells[i] ELSE 0

\* save_firmware_chunk: the new firmware array, unchanged for DownloadError
SaveChunk(fwArray, offset, chunk) ==
    LET inactive == get_inactive_partition
        new_len == offset + Len(chunk)
        written == (inactive.start + offset)..(inactive.start + new_len - 1)
    IN IF new_len > inactive.size THEN fwArray
       ELSE FirmwareArray(fwArray.len,
                [i \in DOMAIN fwArray.cells \cup written |->
                    IF i \in written THEN chunk[i - (inactive.start + offset) + 1]
                    ELSE fwArray.cells[i]])

\* read_firmware_chunk(offset, length): the slice read, or VerificationError
\* when it would end beyond the inactive partition
ReadChunk(offset, length) ==
    LET inactive == get_inactive_partition
    IN IF offset + length > inactive.size
       THEN [ok |-> FALSE, err |-> "VerificationError", bytes |-> <<>>]
       ELSE [ok |-> TRUE, err |-> "-",
             bytes |-> [i \in 1..length |-> ByteAt(firmware, inactive.start + offset + i - 1)]]

\* the announced descriptors: version, size, checksum of the image sent
Firmware(version, size, checksum) ==
    [version |-> version, size |-> size, checksum |-> checksum]
NoFirmware == Firmware(0, 0, ZeroSum)
Versions == {1, 2}
Firmwares ==
    {Firmware(v, n, Crc32Of([i \in 1..n |-> B1])) : v \in Versions, n \in 1..MaxImage}

AgentState(tag, fw) == [tag |-> tag, fw |-> fw]
AgentIdle == AgentState("Idle", NoFirmware)
NoStep == [from |-> AgentIdle, event |-> "-", fw |-> NoFirmware, to |-> AgentIdle, ok |-> TRUE]

NoData == OtaData("-", 0, ZeroSum)

\* MockPlatform::default and OtaAgent::new
PlatformInit ==
    /\ active_partition_index = 0
    /\ boot_partition_index = 0
    /\ ota_data = OtaData("Idle", 0, ZeroSum)
    /\ firmware = FirmwareArray(2 * PartSize, <<>>)

AgentInitState ==
    /\ agent_state = AgentIdle
    /\ record_writes = <<>>
    /\ new_before = NoData
    /\ new_writes = <<>>
    /\ step = NoStep
    /\ start_active = 0

\* variant of PromotedState: the record is left Pending
PromotedStatePending == "Pending"

\* the state OtaManager::new gives a Pending record
PromotedState == "Success"

\* OtaManager::new(connection, platform): a fresh agent on the platform; a
\* Pending record is rewritten with state Success.
OtaManagerNew ==
    /\ agent_state' = AgentIdle
    /\ new_before' = ota_data
    /\ record_writes' = <<>>
    /\ step' = NoStep
    /\ IF ota_data.state = "Pending"
       THEN LET promoted == OtaData(PromotedState, ota_data.version, ota_data.checksum)
            IN ota_data' = promoted /\ new_writes' = <<promoted>>
       ELSE UNCHANGED ota_data /\ new_writes' = <<>>
    /\ UNCHANGED <<active_partition_index, boot_partition_index, firmware, start_active>>
    /\ UNCHANGED <<otaVars, mqttVars, httpVars, sessVars, pureVars>>

\* The image is stored while the agent is Downloading (the tests call
\* platform.save_firmware_chunk between UpdateAvailable and DownloadComplete).
SaveFirmwareChunk(offset, chunk) ==
    /\ agent_state.tag = "Downloading"
    /\ firmware' = SaveChunk(firmware, offset, chunk)
    /\ UNCHANGED <<active_partition_index, boot_partition_index, ota_data, agent_state,
                   agentObs>>
    /\ UNCHANGED <<otaVars, mqttVars, httpVars, sessVars, pureVars>>

\* checksum of the stored image of fw.size bytes; an image that cannot be
\* read has none, and verification fails
ImageChecksum(fw) ==
    LET image == ReadChunk(0, fw.size)
    IN IF image.ok THEN SomeCrc(Crc32Of(image.bytes)) ELSE NoCrc

\* variant of ActivationTarget: the boot partition stays the active one
ActivationTargetActive == get_active_partition

\* the partition activation boots next
ActivationTarget == get_inactive_partition

\* variant of AfterDownload: verification is skipped
AfterDownloadSkip(fw) == AgentState("Activating", NoFirmware)

\* the state DownloadComplete leads to
AfterDownload(fw) == AgentState("Verifying", fw)

\* OtaAgent::process_event(event), event = [tag, fw]
ProcessEvent(event) ==
    LET from == agent_state
        go(to) == /\ agent_state' = to
                  /\ step' = [from |-> from, event |-> event.tag, fw |-> event.fw,
                              to |-> to, ok |-> TRUE]
    IN /\ UNCHANGED firmware
       /\ new_before' = NoData
       /\ new_writes' = <<>>
       /\ UNCHANGED <<otaVars, mqttVars, httpVars, sessVars, pureVars>>
       /\ IF from.tag = "Idle" /\ event.tag = "UpdateAvailable"
          THEN /\ go(AgentState("Downloading", event.fw))
               /\ start_active' = active_partition_index
               /\ record_writes' = <<>>
               /\ UNCHANGED <<active_partition_index, boot_partition_index, ota_data>>
          ELSE IF from.tag = "Downloading" /\ event.tag = "DownloadComplete"
          THEN /\ go(AfterDownload(from.fw))
               /\ UNCHANGED <<active_partition_index, boot_partition_index, ota_data,
                              record_writes, start_active>>
          ELSE IF from.tag = "Verifying" /\ event.tag = "VerificationComplete"
          THEN LET data == IF ImageChecksum(from.fw) = SomeCrc(from.fw.checksum)
                           THEN OtaData("Pending", from.fw.version, from.fw.checksum)
                           ELSE OtaData("Failed", 0, ZeroSum)
               IN /\ ota_data' = data
                  /\ record_writes' = Append(record_writes, data)
                  /\ IF data.state = "Pending"
                     THEN go(AgentState("Activating", NoFirmware))
                     ELSE /\ agent_state' = AgentState("Failed", NoFirmware)
                          /\ step' = [from |-> from, event |-> event.tag, fw |-> event.fw,
                                      to |-> AgentState("Failed", NoFirmware), ok |-> FALSE]
                  /\ UNCHANGED <<active_partition_index, boot_partition_index, start_active>>
          ELSE IF from.tag = "Activating" /\ event.tag = "ActivationComplete"
          THEN /\ go(AgentIdle)
               /\ boot_partition_index' = BootIndexOf(ActivationTarget)
               /\ active_partition_index' = BootIndexOf(ActivationTarget)
               /\ UNCHANGED <<ota_data, record_writes, start_active>>
          ELSE /\ step' = [from |-> from, event |-> event.tag, fw |-> event.fw,
                           to |-> from, ok |-> FALSE]
               /\ UNCHANGED <<platformVars, agent_state, record_writes, start_active>>

Events ==
    {[tag |-> "UpdateAvailable", fw |-> fw] : fw \in Firmwares}
    \cup {[tag |-> t, fw |-> NoFirmware] :
             t \in {"DownloadComplete", "VerificationComplete", "ActivationComplete"}}

\* the chunks the tests' downloader hands to save_firmware_chunk: of one
\* byte and of the longest image
Chunks == UNION {[1..n -> BodyBytes] : n \in {1, MaxImage}}

\* where they are stored: at the start of the partition, at its last byte
\* and past its end
SaveCalls ==
    {<<0, chunk>> : chunk \in Chunks}
    \cup {<<PartSize - 1, <<B1>>>>, <<PartSize - 1, <<B1, B2>>>>, <<PartSize, <<B1>>>>}

(***************************************************************************)
(* mqtt Client::poll.  Bytes are integers 0..255.                          *)
(***************************************************************************)
PUBLISH == 48                 \* 0x30
PINGRESP == 208               \* 0xD0, a packet type poll does not decode
MAX_PACKET_LEN == 1024        \* Vec::<u8, 1024> packet_buf
MAX_TOPIC_LEN == 256          \* String<256> topic
LEN_BUF_SIZE == 4             \* [0u8; 4] remaining_len_buf

FIXED_HEADER_SIZE == 5        \* Vec<u8, 5> fixed_header

\* variant of encode_remaining_length: the continuation bit is never set
RECURSIVE encode_without_continuation(_, _)
encode_without_continuation(buf, len) ==
    IF Len(buf) = FIXED_HEADER_SIZE THEN [ok |-> FALSE, buf |-> buf]
    ELSE IF len \div 128 > 0
    THEN encode_without_continuation(Append(buf, len % 128), len \div 128)
    ELSE [ok |-> TRUE, buf |-> Append(buf, len % 128)]

\* encode_remaining_length(buf, len): Ok(()) or Err(()), and the buffer after
\* the call
RECURSIVE encode_remaining_length(_, _)
encode_remaining_length(buf, len) ==
    IF Len(buf) = FIXED_HEADER_SIZE THEN [ok |-> FALSE, buf |-> buf]
    ELSE IF len \div 128 > 0
    THEN encode_remaining_length(Append(buf, (len % 128) + 128), len \div 128)
    ELSE [ok |-> TRUE, buf |-> Append(buf, len % 128)]

Zeros(n) == [i \in 1..n |-> 0]

\* Transport::read into a buffer of `want` bytes when the transport hands
\* over at most `give` bytes: the bytes read and the bytes left.
ReadBytes(stream, want, give) ==
    LET n == Min(Min(want, give), Len(stream))
    IN [data |-> SubSeq(stream, 1, n), rest |-> SubSeq(stream, n + 1, Len(stream))]

MqNone == [tag |-> "None", topic |-> <<>>, payload |-> <<>>]
MqPanic == [tag |-> "Panic", topic |-> <<>>, payload |-> <<>>]
MqErr(e) == [tag |-> e, topic |-> <<>>, payload |-> <<>>]
MqSome(topic, payload) == [tag |-> "Some", topic |-> topic, payload |-> payload]

\* str::from_utf8(bytes).is_ok(): the bytes are well-formed UTF-8, that is a
\* run of sequences of one to four bytes, each the shortest encoding of a
\* code point that is no surrogate and not above U+10FFFF
RECURSIVE IsUtf8(_)
IsUtf8(bytes) ==
    IF bytes = <<>> THEN TRUE
    ELSE LET b == bytes[1]
             cont(i, lo, hi) == Len(bytes) >= i /\ bytes[i] >= lo /\ bytes[i] <= hi
             rest(n) == IsUtf8(SubSeq(bytes, n + 1, Len(bytes)))
         IN IF b < 128 THEN rest(1)
            ELSE IF b \in 194..223 THEN cont(2, 128, 191) /\ rest(2)
            ELSE IF b = 224 THEN cont(2, 160, 191) /\ cont(3, 128, 191) /\ rest(3)
            ELSE IF b \in (225..236) \cup (238..239)
            THEN cont(2, 128, 191) /\ cont(3, 128, 191) /\ rest(3)
            ELSE IF b = 237 THEN cont(2, 128, 159) /\ cont(3, 128, 191) /\ rest(3)
            ELSE IF b = 240
            THEN cont(2, 144, 191) /\ cont(3, 128, 191) /\ cont(4, 128, 191) /\ rest(4)
            ELSE IF b \in 241..243
            THEN cont(2, 128, 191) /\ cont(3, 128, 191) /\ cont(4, 128, 191) /\ rest(4)
            ELSE IF b = 244
            THEN cont(2, 128, 143) /\ cont(3, 128, 191) /\ cont(4, 128, 191) /\ rest(4)
            ELSE FALSE

\* The remaining-length loop of poll from index i on, after `reads` reads
\* of a length byte; failAt is the number of the read of this poll that the
\* transport fails (the header read is number 1; 0: none fails).  The slice
\* `remaining_len_buf[i..i + 1]` is out of range when i + 1 > 4: a panic.
RECURSIVE LengthLoop(_, _, _, _, _, _)
LengthLoop(stream, i, remaining_len, multiplier, reads, failAt) ==
    IF i + 1 > LEN_BUF_SIZE
    THEN [kind |-> "Panic", len |-> remaining_len, rest |-> stream, reads |-> reads]
    ELSE IF failAt = reads + 2
    THEN [kind |-> "ReadError", len |-> remaining_len, rest |-> stream, reads |-> reads + 1]
    ELSE LET r == ReadBytes(stream, 1, 1)
             byte == IF r.data = <<>> THEN 0 ELSE r.data[1]
             len == remaining_len + (byte % 128) * multiplier
         IN IF byte < 128
            THEN [kind |-> "Ok", len |-> len, rest |-> r.rest, reads |-> reads + 1]
            ELSE LengthLoop(r.rest, i + 1, len, multiplier * 128, reads + 1, failAt)

\* poll after the length field: the packet read and the parse
PollPacket(stream, remaining_len, give, fails) ==
    IF remaining_len > MAX_PACKET_LEN THEN [result |-> MqPanic, rest |-> stream]
    ELSE IF fails THEN [result |-> MqErr("ReadError"), rest |-> stream]
    ELSE LET r == ReadBytes(stream, remaining_len, give)  \* one read, count unused
             packet_buf == r.data \o Zeros(remaining_len - Len(r.data))
         IN IF remaining_len < 2 THEN [result |-> MqPanic, rest |-> r.rest]
            ELSE LET topic_len == packet_buf[1] * 256 + packet_buf[2]
                 IN IF 2 + topic_len > remaining_len \/ topic_len > MAX_TOPIC_LEN
                    THEN [result |-> MqPanic, rest |-> r.rest]
                    ELSE LET topic == SubSeq(packet_buf, 3, 2 + topic_len)
                             payload == SubSeq(packet_buf, 3 + topic_len, remaining_len)
                         IN IF IsUtf8(topic)
                            THEN [result |-> MqSome(topic, payload), rest |-> r.rest]
                            ELSE [result |-> MqPanic, rest |-> r.rest]

\* Client::poll when the transport hands over at most `give` bytes to the
\* packet read and fails the read number failAt (0: none).
Poll(give, failAt) ==
    /\ mq_polls <= Len(mq_sent)
    /\ mq_polls' = mq_polls + 1
    /\ UNCHANGED <<mq_sent, otaVars, agentVars, httpVars, sessVars, pureVars>>
    /\ IF failAt = 1
       THEN mq_result' = MqErr("ReadError") /\ mq_len_reads' = 0 /\ mq_len' = None
            /\ UNCHANGED mq_in
       ELSE LET h == ReadBytes(mq_in, 1, 1)
            IN IF h.data = <<>>
               THEN mq_result' = MqNone /\ mq_len_reads' = 0 /\ mq_len' = None
                    /\ UNCHANGED mq_in
               ELSE IF h.data[1] \div 16 # PUBLISH \div 16
               THEN mq_result' = MqNone /\ mq_len_reads' = 0 /\ mq_len' = None
                    /\ mq_in' = h.rest
               ELSE LET l == LengthLoop(h.rest, 0, 0, 1, 0, failAt)
                    IN /\ mq_len_reads' = l.reads
                       /\ mq_len' = IF l.kind = "Ok" THEN l.len ELSE None
                       /\ IF l.kind = "Panic"
                          THEN mq_result' = MqPanic /\ mq_in' = l.rest
                          ELSE IF l.kind # "Ok"
                          THEN mq_result' = MqErr(l.kind) /\ mq_in' = l.rest
                          ELSE LET p == PollPacket(l.rest, l.len, give, failAt = l.reads + 2)
                               IN mq_result' = p.result /\ mq_in' = p.rest

\* What the broker puts on the stream: PUBLISH packets, a PUBLISH whose
\* remaining-length field is four continuation bytes, and a PINGRESP.
TopicBytes == {<<97>>, <<97, 47, 98>>}            \* "a", "a/b"
EAcute == <<195, 169>>                            \* U+00E9 in UTF-8
PublishBytes(topic, payload) ==
    encode_remaining_length(<<PUBLISH>>, 2 + Len(topic) + Len(payload)).buf
        \o <<Len(topic) \div 256, Len(topic) % 256>> \o topic \o payload

Packet(kind, topic, payload, bytes) ==
    [kind |-> kind, topic |-> topic, payload |-> payload, bytes |-> bytes]

\* PUBLISH packets that are not well formed: a remaining length of 1025, a
\* remaining length of 1, a topic length of 5 in a packet of 2 bytes, a topic
\* that is the single byte 0xFF
Malformed ==
    {Packet("toolong", <<>>, <<>>, <<PUBLISH, 129, 8>>),
     Packet("tooshort", <<>>, <<>>, <<PUBLISH, 1, 0>>),
     Packet("topiclong", <<>>, <<>>, <<PUBLISH, 2, 0, 5>>),
     Packet("badutf8", <<>>, <<>>, <<PUBLISH, 3, 0, 1, 255>>)}

\* remaining lengths at the ends of the ranges of 1, 2, 3 and 4 length bytes
LengthValues == {0, 1, 127, 128, 16383, 16384, 2097151, 2097152, 268435455}

\* a PUBLISH fixed header that announces v bytes
LengthOnly == {Packet("len", <<>>, <<>>, encode_remaining_length(<<PUBLISH>>, v).buf) :
                  v \in LengthValues}

PacketChoices ==
    {Packet("publish", t, pl, PublishBytes(t, pl)) :
        t \in TopicBytes, pl \in SeqsUpTo(BodyBytes, MaxPayload)}
    \cup {Packet("publish", EAcute, <<B1>>, PublishBytes(EAcute, <<B1>>)),
          Packet("badlen", <<>>, <<>>, <<PUBLISH, 128, 128, 128, 128, 1>>),
          Packet("pingresp", <<>>, <<>>, <<PINGRESP, 0>>)}
    \cup Malformed \cup LengthOnly

\* the packets that may follow the first one
FollowChoices ==
    {Packet("publish", <<97>>, <<B1>>, PublishBytes(<<97>>, <<B1>>)),
     Packet("pingresp", <<>>, <<>>, <<PINGRESP, 0>>)}

Streams ==
    {<<p>> \o rest : p \in PacketChoices, rest \in SeqsUpTo(FollowChoices, MaxPackets - 1)}

RECURSIVE StreamOf(_)
StreamOf(packets) ==
    IF packets = <<>> THEN <<>> ELSE Head(packets).bytes \o StreamOf(Tail(packets))

MqttInitState ==
    /\ mq_sent \in Streams
    /\ mq_in = StreamOf(mq_sent)
    /\ mq_result = MqNone
    /\ mq_polls = 0
    /\ mq_len_reads = 0
    /\ mq_len = None

\* the MQTT client at rest, for the specifications of the other components
MqttRest ==
    /\ mq_sent = <<>>
    /\ mq_in = <<>>
    /\ mq_result = MqNone
    /\ mq_polls = 0
    /\ mq_len_reads = 0
    /\ mq_len = None

(***************************************************************************)
(* mqtt Client::connect, publish and subscribe; MqttProgress.              *)
(***************************************************************************)
CONNECT == 16                 \* 0x10
CONNACK == 32                 \* 0x20
SUBSCRIBE == 130              \* 0x82
SUBACK == 144                 \* 0x90
PROTOCOL_LEVEL == 4
MAX_CONNECT_PAYLOAD == 256    \* Vec<u8, 256> payload of connect
PACKET_ID == 1                \* packet_id of subscribe
U16_RANGE == 65536

PROTOCOL_NAME == <<77, 81, 84, 84>>     \* b"MQTT"

\* u16::to_be_bytes of `n as u16`
BeBytes(n) == <<(n % U16_RANGE) \div 256, n % 256>>

\* the loop `while total_read < buf.len()` of connect and subscribe over the
\* reply bytes: each read hands over at most `give` bytes, the read number
\* failAt fails (0: none)
RECURSIVE ReadExact(_, _, _, _, _, _)
ReadExact(stream, n, give, failAt, reads, acc) ==
    IF ~(Len(acc) < n) THEN [kind |-> "Ok", data |-> acc, reads |-> reads]
    ELSE IF failAt = reads + 1 THEN [kind |-> "ReadError", data |-> acc, reads |-> reads + 1]
    ELSE LET r == ReadBytes(stream, n - Len(acc), give)
         IN IF r.data = <<>>
            THEN [kind |-> "ConnectionClosed", data |-> acc, reads |-> reads + 1]
            ELSE ReadExact(r.rest, n, give, failAt, reads + 1, acc \o r.data)

\* the writes of a call, then its flush: the write number wfail fails
\* (Len(bufs) + 1: the flush; 0: none).  What is kept is every buffer
\* handed to write, the write that failed included.
WriteAll(bufs, wfail) ==
    [ok |-> wfail = 0 \/ wfail > Len(bufs) + 1,
     written |-> IF wfail = 0 \/ wfail > Len(bufs) THEN bufs ELSE SubSeq(bufs, 1, wfail)]

MsCall(op, topic, payload, qos, reply) ==
    [op |-> op, topic |-> topic, payload |-> payload, qos |-> qos, reply |-> reply]

MsReturn(call, res, written, reads) ==
    /\ ms_call' = call
    /\ ms_result' = res
    /\ ms_written' = written
    /\ ms_reads' = reads

\* variant of ConnackResult: a return code of 6 or more refuses too
ConnackResultRefuseAll(connack_buf) ==
    IF connack_buf[1] # CONNACK THEN "ProtocolError"
    ELSE IF connack_buf[2] # 2 THEN "ProtocolError"
    ELSE IF connack_buf[4] = 0 THEN "Ok"
    ELSE "ConnectionRefused"

\* connect, the checks of the four CONNACK bytes
ConnackResult(connack_buf) ==
    IF connack_buf[1] # CONNACK THEN "ProtocolError"
    ELSE IF connack_buf[2] # 2 THEN "ProtocolError"
    ELSE IF connack_buf[4] = 0 THEN "Ok"
    ELSE IF connack_buf[4] \in 1..5 THEN "ConnectionRefused"
    ELSE "ProtocolError"

\* Client::connect(connection, options) on a connection whose peer answers
\* with `reply`.
Connect(options, reply, give, wfail, rfail) ==
    /\ ~ms_connected
    /\ UNCHANGED <<otaVars, agentVars, mqttVars, httpVars, pureVars>>
    /\ LET call == MsCall("connect", options.client_id, <<>>, 0, reply)
           vh == BeBytes(Len(PROTOCOL_NAME)) \o PROTOCOL_NAME \o <<PROTOCOL_LEVEL>>
                 \o <<IF options.clean_session THEN 2 ELSE 0>>
                 \o BeBytes(options.keep_alive_seconds)
           payload == BeBytes(Len(options.client_id)) \o options.client_id
           encoded == encode_remaining_length(<<CONNECT>>, Len(vh) + Len(payload))
           fixed_header == encoded.buf
           w == WriteAll(<<fixed_header, vh, payload>>, wfail)
           r == ReadExact(reply, 4, give, rfail, 0, <<>>)
       IN IF Len(payload) > MAX_CONNECT_PAYLOAD
          THEN MsReturn(call, "Panic", <<>>, 0) /\ UNCHANGED ms_connected
          ELSE IF ~encoded.ok
          THEN MsReturn(call, "ProtocolError", <<>>, 0) /\ UNCHANGED ms_connected
          ELSE IF ~w.ok
          THEN MsReturn(call, "WriteError", w.written, 0) /\ UNCHANGED ms_connected
          ELSE IF r.kind # "Ok"
          THEN MsReturn(call, r.kind, w.written, r.reads) /\ UNCHANGED ms_connected
          ELSE /\ MsReturn(call, ConnackResult(r.data), w.written, r.reads)
               /\ ms_connected' = (ConnackResult(r.data) = "Ok")

\* variant of PublishFlags: the QoS bits are left out
PublishFlagsQos0(qos) == PUBLISH

\* publish, the first byte of the fixed header
PublishFlags(qos) == IF qos = 1 \/ qos = 2 THEN PUBLISH + qos * 2 ELSE PUBLISH

\* Client::publish: the result, and the buffers handed to write
PublishCall(topic, payload, qos, wfail) ==
    IF 2 + Len(topic) > MAX_PACKET_LEN \/ 2 + Len(topic) + Len(payload) > MAX_PACKET_LEN
    THEN [result |-> "Panic", written |-> <<>>]
    ELSE LET packet == BeBytes(Len(topic)) \o topic \o payload
             encoded == encode_remaining_length(<<PublishFlags(qos)>>, Len(packet))
             fixed_header == encoded.buf
             w == WriteAll(<<fixed_header, packet>>, wfail)
         IN IF ~encoded.ok THEN [result |-> "Panic", written |-> <<>>]   \* unwrap
            ELSE [result |-> IF w.ok THEN "Ok" ELSE "WriteError", written |-> w.written]

MqttPublish(topic, payload, qos, wfail) ==
    /\ ms_connected
    /\ UNCHANGED <<ms_connected, otaVars, agentVars, mqttVars, httpVars, pureVars>>
    /\ LET p == PublishCall(topic, payload, qos, wfail)
       IN MsReturn(MsCall("publish", topic, payload, qos, <<>>), p.result, p.written, 0)

\* variant of SubackResult: the packet identifier is not compared
SubackResultAnyId(suback_buf) ==
    IF suback_buf[1] # SUBACK THEN "ProtocolError" ELSE "Ok"

\* subscribe, the checks of the five SUBACK bytes
SubackResult(suback_buf) ==
    IF suback_buf[1] # SUBACK THEN "ProtocolError"
    ELSE IF suback_buf[3] * 256 + suback_buf[4] # PACKET_ID THEN "ProtocolError"
    ELSE "Ok"

\* Client::subscribe(topic, qos) when the broker answers with `reply`
Subscribe(topic, qos, reply, give, wfail, rfail) ==
    /\ ms_connected
    /\ UNCHANGED <<ms_connected, otaVars, agentVars, mqttVars, httpVars, pureVars>>
    /\ LET call == MsCall("subscribe", topic, <<>>, qos, reply)
           packet == BeBytes(PACKET_ID) \o BeBytes(Len(topic)) \o topic \o <<qos>>
           encoded == encode_remaining_length(<<SUBSCRIBE>>, Len(packet))
           fixed_header == encoded.buf
           w == WriteAll(<<fixed_header, packet>>, wfail)
           r == ReadExact(reply, 5, give, rfail, 0, <<>>)
       IN IF Len(packet) > MAX_PACKET_LEN \/ ~encoded.ok
          THEN MsReturn(call, "Panic", <<>>, 0)
          ELSE IF ~w.ok
          THEN MsReturn(call, "WriteError", w.written, 0)
          ELSE IF r.kind # "Ok"
          THEN MsReturn(call, r.kind, w.written, r.reads)
          ELSE MsReturn(call, SubackResult(r.data), w.written, r.reads)

\* the ASCII bytes of the state names and of the punctuation of the body
IDLE_B == <<105, 100, 108, 101>>   \* idle
ERASING_B == <<101, 114, 97, 115, 105, 110, 103>>   \* erasing
DOWNLOADING_B == <<100, 111, 119, 110, 108, 111, 97, 100, 105, 110, 103>>   \* downloading
VERIFYING_B == <<118, 101, 114, 105, 102, 121, 105, 110, 103>>   \* verifying
FINALIZING_B == <<102, 105, 110, 97, 108, 105, 122, 105, 110, 103>>   \* finalizing
COMPLETED_B == <<99, 111, 109, 112, 108, 101, 116, 101, 100>>   \* completed
FAILED_B == <<102, 97, 105, 108, 101, 100>>   \* failed
CANCELED_B == <<99, 97, 110, 99, 101, 108, 101, 100>>   \* canceled
KEY_BYTES == <<123, 34, 98, 121, 116, 101, 115, 34, 58>>   \* {"bytes":
KEY_TOTAL == <<44, 34, 116, 111, 116, 97, 108, 34, 58>>   \* ,"total":
KEY_STATE == <<44, 34, 115, 116, 97, 116, 101, 34, 58, 34>>   \* ,"state":"
JSON_END == <<34, 125>>   \* "}
MAX_JSON_LEN == 128           \* Vec<u8, 128> encoded

\* serde_json_core::to_vec of Body {bytes, total, state}
RECURSIVE DigitBytes(_)
DigitBytes(n) == IF n < 10 THEN <<48 + n>> ELSE DigitBytes(n \div 10) \o <<48 + (n % 10)>>

StateBytes(st) ==
    CASE st = "idle" -> IDLE_B
      [] st = "erasing" -> ERASING_B
      [] st = "downloading" -> DOWNLOADING_B
      [] st = "verifying" -> VERIFYING_B
      [] st = "finalizing" -> FINALIZING_B
      [] st = "completed" -> COMPLETED_B
      [] st = "failed" -> FAILED_B
      [] st = "canceled" -> CANCELED_B

JsonBody(p) ==
    KEY_BYTES \o DigitBytes(p.bytes) \o KEY_TOTAL \o DigitBytes(p.total)
    \o KEY_STATE \o StateBytes(p.state) \o JSON_END

\* MqttProgress::publish_progress(p) of a publisher made with `topic`
PublishProgress(topic, p, wfail) ==
    /\ ms_connected
    /\ UNCHANGED <<ms_connected, otaVars, agentVars, mqttVars, httpVars, pureVars>>
    /\ LET encoded == JsonBody(p)
           r == PublishCall(topic, encoded, 0, wfail)
       IN IF Len(encoded) > MAX_JSON_LEN
          THEN MsReturn(MsCall("progress", topic, <<>>, 0, <<>>), "Protocol", <<>>, 0)
          ELSE MsReturn(MsCall("progress", topic, encoded, 0, <<>>),
                        IF r.result = "WriteError" THEN "Network(WriteError)" ELSE r.result,
                        r.written, 0)

RECURSIVE Concat(_)
Concat(bufs) == IF bufs = <<>> THEN <<>> ELSE Head(bufs) \o Concat(Tail(bufs))

\* The broker sends the PUBLISH packet the client wrote back to the client.
Deliver ==
    /\ ms_call.op = "publish"
    /\ ms_result = "Ok"
    /\ mq_sent' = <<Packet("echo", ms_call.topic, ms_call.payload, Concat(ms_written))>>
    /\ mq_in' = Concat(ms_written)
    /\ mq_polls' = 0
    /\ mq_result' = MqNone
    /\ mq_len_reads' = 0
    /\ mq_len' = None
    /\ UNCHANGED <<otaVars, agentVars, httpVars, sessVars, pureVars>>

NoCall == MsCall("-", <<>>, <<>>, 0, <<>>)

SessRest ==
    /\ ms_connected = FALSE
    /\ ms_call = NoCall
    /\ ms_result = "-"
    /\ ms_written = <<>>
    /\ ms_reads = 0

(***************************************************************************)
(* run_http, lines 205-239, on numbers of the width the target gives them. *)
(* A number is [hi, lo] with value hi * 2^16 + lo and 0 <= lo < 2^16; a    *)
(* u32 has hi < 2^16.                                                      *)
(***************************************************************************)
HALF == 65536

Wide(hi, lo) == [hi |-> hi, lo |-> lo]

\* a + b without loss
WideAdd(a, b) ==
    [hi |-> a.hi + b.hi + ((a.lo + b.lo) \div HALF), lo |-> (a.lo + b.lo) % HALF]

WideGt(a, b) == a.hi > b.hi \/ (a.hi = b.hi /\ a.lo > b.lo)

\* `x as u32`
AsU32(x) == [hi |-> x.hi % HALF, lo |-> x.lo]

\* does x fit an unsigned integer of `bits` bits (32 or 64; the numbers of
\* the model are all below 2^64)
FitsBits(x, bits) == bits = 64 \/ x.hi < HALF

\* The checks of lines 205-222 and the erase of lines 236-239 when no cancel
\* is pending: the result ("go": the run goes on to the download) and the
\* end offset handed to storage.erase.
PreflightWide(in) ==
    LET end_offset_u32 == AsU32(WideAdd(in.base, in.size))  \* u64 checked_add, then `as u32`
        end_offset_usize == WideAdd(in.base, in.size)       \* usize checked_add
        zero == Wide(0, 0)
    IN IF in.size = zero
       THEN [result |-> "InvalidConfig", erased |-> FALSE, erase_to |-> zero]
       ELSE IF ~FitsBits(end_offset_usize, in.usize_bits)
       THEN [result |-> "InvalidConfig", erased |-> FALSE, erase_to |-> zero]
       ELSE IF WideGt(end_offset_usize, in.capacity)
       THEN [result |-> "InvalidConfig", erased |-> FALSE, erase_to |-> zero]
       ELSE IF in.erase
       THEN [result |-> "go", erased |-> TRUE, erase_to |-> end_offset_u32]
       ELSE [result |-> "go", erased |-> FALSE, erase_to |-> zero]

\* run_http called with these arguments
PreflightCall(in) ==
    /\ pf_in' = in
    /\ pf_out' = PreflightWide(in)
    /\ UNCHANGED <<otaVars, agentVars, mqttVars, httpVars, sessVars, runVars, crcVars, shellVars>>

\* the bounds check at rest
PfRest ==
    /\ pf_in = [base |-> Wide(0, 0), size |-> Wide(0, 0), capacity |-> Wide(0, 0),
                usize_bits |-> 64, erase |-> FALSE]
    /\ pf_out = [result |-> "-", erased |-> FALSE, erase_to |-> Wide(0, 0)]

(***************************************************************************)
(* run_http as a function.  The environment of a call is fixed beforehand: *)
(* `server` says what the i-th http.request returns and whether the        *)
(* storage.write that follows succeeds, `pub_errs` which calls of          *)
(* publish_progress return an error.                                       *)
(***************************************************************************)
\* what the request numbered i of the call returns for the range asked
AnswerTo(server, i, start, end, size, len) ==
    LET honest == HonestResponse(start, end, size, len)
        ok(r) == [err |-> "-", r |-> r, writeOk |-> TRUE]
    IN IF server.kind = "down" /\ i >= server.at
       THEN [err |-> "ReadError", r |-> honest, writeOk |-> TRUE]
       ELSE IF i # server.at \/ server.kind = "good" THEN ok(honest)
       ELSE CASE server.kind = "error" -> [err |-> "ReadError", r |-> honest, writeOk |-> TRUE]
              [] server.kind = "status" -> ok([honest EXCEPT !.status = 200])
              [] server.kind = "short" ->
                     ok([honest EXCEPT !.body = SubSeq(honest.body, 1, len - 1)])
              [] server.kind = "range" ->
                     ok([honest EXCEPT !.headers = <<ExactHeader(start + 1, end + 1, size)>>])
              [] server.kind = "write" -> [err |-> "-", r |-> honest, writeOk |-> FALSE]

\* the Body of Progress {bytes_total, bytes_downloaded, state: st}
ProgressOf(bytes_total, bytes_downloaded, st) ==
    [bytes |-> bytes_downloaded, total |-> bytes_total, state |-> StateStr[st]]

\* What the call of publish_progress numbered k does, on a publisher whose
\* topic has in.topic_len bytes: Err(Protocol) when the JSON text does not
\* fit its buffer; a panic when Client::publish cannot put the topic length,
\* the topic and the JSON text into its packet buffer (the unwraps come
\* before any write); else Err when a write of the call fails (k is in
\* in.pub_errs), and Ok otherwise.
PubResult(in, k, progress) ==
    LET encoded == JsonBody(progress)
    IN IF Len(encoded) > MAX_JSON_LEN THEN "Err"
       ELSE IF 2 + in.topic_len + Len(encoded) > MAX_PACKET_LEN THEN "Panic"
       ELSE IF k \in in.pub_errs THEN "Err"
       ELSE "Ok"

\* variant of Discard: an error of publish_progress fails the run
Propagate(pub_result, rest, unwound) ==
    IF pub_result = "Panic" THEN unwound
    ELSE IF pub_result = "Ok" THEN rest
    ELSE [rest EXCEPT !.result = R("Protocol", "-"), !.state = "Failed"]

\* `let _ = mp.publish_progress(..);` and then the rest of the run: the
\* value returned is dropped; a panic of the call ends the run where it is
Discard(pub_result, rest, unwound) ==
    IF pub_result = "Panic" THEN unwound ELSE rest

RunOut(st, res, bytes, reqs, pubs) ==
    [state |-> st, result |-> res, storage |-> bytes, requests |-> reqs, publishes |-> pubs]

\* a run that did not return: a call it made panicked
Panicked == R("Panic", "-")

\* `if let Some(mp) = mqtt.as_deref_mut() { let _ = mp.publish_progress(..) }`
\* and then `rest`, which is given the number of publish calls made so far;
\* st is the engine's state at the call and bytes the storage contents
PublishThen(in, pubs, progress, st, bytes, reqs, rest(_)) ==
    IF in.mqtt
    THEN Discard(PubResult(in, pubs + 1, progress), rest(pubs + 1),
                 RunOut(st, Panicked, bytes, reqs, pubs + 1))
    ELSE rest(pubs)

\* `while downloaded < source.size { .. }` and what follows it; l holds the
\* locals: downloaded, crc, attempt, and storage, reqs, pubs (the storage
\* bytes and the requests and publish calls made so far)
RECURSIVE Download(_, _)
Download(in, l) ==
    LET out(st, res) == RunOut(st, res, l.storage, l.reqs, l.pubs)
    IN IF l.downloaded < in.size
       THEN IF in.canceled THEN out("Canceled", R("Canceled", "-"))
            ELSE IF ~HostFits(in.host_len) THEN out("Downloading", R("Protocol", "-"))
            ELSE
            LET len == Min(in.cfg.chunk_size, in.size - l.downloaded)
                start == l.downloaded
                end == start + len - 1
                a == AnswerTo(in.server, l.reqs + 1, start, end, in.size, len)
                chunk == ChunkOf(a.r.body, len)
                abs_off == WriteOffset(in.base, start)
                fail(res) == RunOut("Failed", res, l.storage, l.reqs + 1, l.pubs)
            IN IF a.err # "-"
               THEN IF l.attempt + 1 >= MaxAttempts
                    THEN fail(R("Network", a.err))
                    ELSE Download(in, [l EXCEPT !.attempt = @ + 1, !.reqs = @ + 1])
               ELSE IF ~StatusAccepted(a.r.status) THEN fail(R("Network", "ProtocolError"))
               ELSE IF ~ContentRangeAccepted(a.r.headers, start, end, in.size)
               THEN fail(R("Network", "ProtocolError"))
               ELSE IF chunk = <<>> THEN fail(R("Network", "ReadError"))
               ELSE IF a.r.status = 206 /\ Len(chunk) # len THEN fail(R("Network", "ProtocolError"))
               ELSE IF in.base + start + Len(chunk) > in.base + in.size
               THEN fail(R("InvalidConfig", "-"))
               ELSE IF ~(a.writeOk /\ abs_off + Len(chunk) <= Capacity)
               THEN fail(R("Storage", "WriteError"))
               ELSE LET written == WriteStorage(l.storage, abs_off, chunk)
                        next(pubs) ==
                            Download(in, [downloaded |-> l.downloaded + Len(chunk),
                                          crc |-> CrcUpdate(l.crc, chunk),
                                          attempt |-> 0,
                                          storage |-> written,
                                          reqs |-> l.reqs + 1,
                                          pubs |-> pubs])
                    IN PublishThen(in, l.pubs,
                                   ProgressOf(in.size, l.downloaded + Len(chunk), "Downloading"),
                                   "Downloading", written, l.reqs + 1, next)
       ELSE IF in.cfg.verify_crc32 /\ in.crc32.some /\ VerifyMismatch(l.crc, in.crc32.v)
       THEN LET failed(pubs) ==
                    RunOut("Failed", R("VerifyFailed", "-"), l.storage, l.reqs, pubs)
            IN PublishThen(in, l.pubs, ProgressOf(in.size, in.size, "Failed"),
                           "Failed", l.storage, l.reqs, failed)
       ELSE LET completed(pubs) == RunOut("Completed", Ok, l.storage, l.reqs, pubs)
                finalizing(pubs) ==
                    PublishThen(in, pubs, ProgressOf(in.size, in.size, "Completed"),
                                "Completed", l.storage, l.reqs, completed)
            IN PublishThen(in, l.pubs, ProgressOf(in.size, in.size, "Finalizing"),
                           "Finalizing", l.storage, l.reqs, finalizing)

\* run_http on a new engine (state Idle) and a storage of Capacity bytes
\* holding OldByte
RunHttp(in) ==
    LET storage0 == [i \in 0..(Capacity - 1) |-> OldByte]
        pre == Preflight(in.size, in.base, in.canceled)
        begin(bytes) == Download(in, [downloaded |-> 0, crc |-> CrcNew, attempt |-> 0,
                                      storage |-> bytes, reqs |-> 0, pubs |-> 0])
    IN IF pre = "InvalidConfig" THEN RunOut("Failed", R("InvalidConfig", "-"), storage0, 0, 0)
       ELSE IF pre = "Overflow" THEN RunOut("Idle", R("InvalidConfig", "-"), storage0, 0, 0)
       ELSE IF pre = "Canceled" THEN RunOut("Canceled", R("Canceled", "-"), storage0, 0, 0)
       ELSE IF in.cfg.erase_before_write
       THEN IF in.eraseOk
            THEN begin(EraseStorage(storage0, in.base, in.base + in.size))
            ELSE RunOut("Failed", R("Storage", "EraseError"), storage0, 0, 0)
       ELSE begin(storage0)

NoRun == RunOut("-", NoResult, <<>>, 0, 0)

\* the same call twice: with the publisher of `in`, and with a publisher
\* that always returns Ok.  The model follows one such call.
RunHttpTwice(in) ==
    /\ rp_out.given = NoRun
    /\ rp_in' = in
    /\ rp_out' = [given |-> RunHttp(in), always |-> RunHttp([in EXCEPT !.pub_errs = {}])]
    /\ UNCHANGED <<otaVars, agentVars, mqttVars, httpVars, sessVars, pfVars, crcVars, shellVars>>

RunRest ==
    /\ rp_in = [size |-> 0]
    /\ rp_out = [given |-> NoRun, always |-> NoRun]

\* Crc32::new(), update(data[..k]), update(data[k..]), finalize(), beside
\* Crc32::new(), update(data), finalize().  The model follows one such pair.
CrcSplit(data, k) ==
    /\ crc_in.k = None
    /\ crc_in' = [data |-> data, k |-> k]
    /\ crc_out' =
           [whole |-> CrcFinalize(CrcUpdate(CrcNew, data)),
            split |-> CrcFinalize(CrcUpdate(CrcUpdate(CrcNew, SubSeq(data, 1, k)),
                                            SubSeq(data, k + 1, Len(data))))]
    /\ UNCHANGED <<otaVars, agentVars, mqttVars, httpVars, sessVars, pfVars, runVars, shellVars>>

CrcRest ==
    /\ crc_in = [data |-> <<>>, k |-> None]
    /\ crc_out = [whole |-> CrcNew, split |-> CrcNew]

(***************************************************************************)
(* Shell: input, process_command, parse_arguments, get_arg.                *)
(* A byte is a string of one character; the two control bytes TLA+ has no  *)
(* escape for are written "BS" and "DEL".  Indices are those of the code,  *)
(* from 0: At(buffer, i) is buffer[i].                                     *)
(***************************************************************************)
MAX_BUFFER_SIZE == 256
MAX_ARGS == 16
ASCII_BACKSPACE == "BS"
ASCII_LF == "\n"
ASCII_CR == "\r"
ASCII_DEL == "DEL"
ASCII_SPACE == " "
QUOTE == "\""
BACKSLASH == "\\"

\* `byte >= 0x20 && byte < 0x7F`; the byte 0x60, which a string of TLA+
\* cannot hold, is written "GRAVE"
PrintableAscii ==
    {" ", "!", "\"", "#", "$", "%", "&", "'", "(", ")", "*", "+", ",", "-",
     ".", "/", "0", "1", "2", "3", "4", "5", "6", "7", "8", "9", ":", ";",
     "<", "=", ">", "?", "@", "A", "B", "C", "D", "E", "F", "G", "H", "I",
     "J", "K", "L", "M", "N", "O", "P", "Q", "R", "S", "T", "U", "V", "W",
     "X", "Y", "Z", "[", "\\", "]", "^", "_", "GRAVE", "a", "b", "c", "d", "e",
     "f", "g", "h", "i", "j", "k", "l", "m", "n", "o", "p", "q", "r", "s",
     "t", "u", "v", "w", "x", "y", "z", "{", "|", "}", "~"}

At(buffer, i) == buffer[i + 1]
Put(buffer, i, byte) == [buffer EXCEPT ![i + 1] = byte]

\* variant of Unescape: the escaped character is kept as it is
UnescapeKept(escaped_char) == escaped_char

\* `match escaped_char`
Unescape(escaped_char) ==
    CASE escaped_char = QUOTE -> QUOTE
      [] escaped_char = BACKSLASH -> BACKSLASH
      [] escaped_char = "n" -> "\n"
      [] escaped_char = "t" -> "\t"
      [] escaped_char = "r" -> "\r"
      [] OTHER -> escaped_char

\* `while i < self.buffer_len && self.buffer[i] == ASCII_SPACE`
RECURSIVE SkipSpaces(_, _)
SkipSpaces(buffer, i) ==
    IF i < Len(buffer) /\ At(buffer, i) = ASCII_SPACE THEN SkipSpaces(buffer, i + 1) ELSE i

\* the loop of a quoted argument: the buffer with the processed characters
\* written back, i and write_pos at its end, and whether it met the closing
\* quote
RECURSIVE QuotedScan(_, _, _)
QuotedScan(buffer, i, write_pos) ==
    IF ~(i < Len(buffer))
    THEN [buffer |-> buffer, i |-> i, write_pos |-> write_pos, closed |-> FALSE]
    ELSE IF At(buffer, i) = BACKSLASH /\ i + 1 < Len(buffer)
    THEN QuotedScan(Put(buffer, write_pos, Unescape(At(buffer, i + 1))), i + 2, write_pos + 1)
    ELSE IF At(buffer, i) = QUOTE
    THEN [buffer |-> buffer, i |-> i + 1, write_pos |-> write_pos, closed |-> TRUE]
    ELSE QuotedScan(IF write_pos # i THEN Put(buffer, write_pos, At(buffer, i)) ELSE buffer,
                    i + 1, write_pos + 1)

\* the loop of an unquoted argument: i at its end
RECURSIVE UnquotedScan(_, _)
UnquotedScan(buffer, i) ==
    IF i < Len(buffer) /\ At(buffer, i) # ASCII_SPACE /\ At(buffer, i) # QUOTE
    THEN UnquotedScan(buffer, i + 1) ELSE i

\* argv_starts[argc], argv_lens[argc] and argc += 1
AddArg(args, start, len) == Append(args, [start |-> start, len |-> len])

\* variant of AddUnclosed: the argument without closing quote is dropped
AddUnclosedNever(args, arg_start, i, buffer_len, start, len) == args

\* `if i >= self.buffer_len && self.argc == arg_start`: the quoted argument
\* that met no closing quote
AddUnclosed(args, arg_start, i, buffer_len, start, len) ==
    IF i >= buffer_len /\ Len(args) = arg_start THEN AddArg(args, start, len) ELSE args

\* the outer loop of parse_arguments, from index i
RECURSIVE ParseFrom(_, _, _)
ParseFrom(buffer, args, i) ==
    IF ~(i < Len(buffer) /\ Len(args) < MAX_ARGS)
    THEN [buffer |-> buffer, args |-> args]
    ELSE LET j == SkipSpaces(buffer, i)
         IN IF j >= Len(buffer)
            THEN [buffer |-> buffer, args |-> args]
            ELSE IF At(buffer, j) = QUOTE
            THEN LET read_start == j + 1
                     scan == QuotedScan(buffer, read_start, read_start)
                     len == scan.write_pos - read_start
                     closed == IF scan.closed THEN AddArg(args, read_start, len) ELSE args
                 IN ParseFrom(scan.buffer,
                              AddUnclosed(closed, Len(args), scan.i, Len(buffer), read_start, len),
                              scan.i)
            ELSE LET k == UnquotedScan(buffer, j)
                 IN ParseFrom(buffer, AddArg(args, j, k - j), k)

\* parse_arguments: the buffer and the arguments after it
ParseArguments(buffer) ==
    IF Len(buffer) = 0 THEN [buffer |-> buffer, args |-> <<>>] ELSE ParseFrom(buffer, <<>>, 0)

\* get_arg(index).unwrap_or("")
GetArg(parsed, index) ==
    LET start == parsed.args[index + 1].start
        len == parsed.args[index + 1].len
    IN IF start + len <= Len(parsed.buffer)
       THEN SubSeq(parsed.buffer, start + 1, start + len) ELSE <<>>

\* the one registered command, and the flags that ask for its help
CommandName == <<"c">>
HelpFlags == {<<"-", "h">>, <<"-", "-", "h", "e", "l", "p">>}
ListName == <<"l", "i", "s", "t">>

ShellCall(kind, argv) == [kind |-> kind, argv |-> argv]

\* process_command on a shell with help and the list command enabled: the
\* handler call it makes, the help or the list it shows, or nothing
ProcessCommand(buffer) ==
    LET parsed == ParseArguments(buffer)
        argc == Len(parsed.args)
    IN IF argc = 0 THEN <<>>
       ELSE IF argc = 2 /\ GetArg(parsed, 1) \in HelpFlags
       THEN <<ShellCall("help", <<GetArg(parsed, 0)>>)>>
       ELSE IF GetArg(parsed, 0) = CommandName
       THEN <<ShellCall("handler", [j \in 1..argc |-> GetArg(parsed, j - 1)])>>
       ELSE IF GetArg(parsed, 0) = ListName
       THEN <<ShellCall("list", <<>>)>>
       ELSE <<ShellCall("unknown", <<>>)>>

\* input(data), byte by byte: the buffer, the calls made and the result
RECURSIVE InputFrom(_, _, _)
InputFrom(buffer, calls, data) ==
    IF data = <<>>
    THEN [buffer |-> buffer, calls |-> calls, result |-> "Ok"]
    ELSE LET byte == Head(data)
         IN IF byte \in {ASCII_CR, ASCII_LF}
            THEN InputFrom(<<>>, calls \o ProcessCommand(buffer), Tail(data))
            ELSE IF byte \in {ASCII_BACKSPACE, ASCII_DEL}
            THEN InputFrom(IF Len(buffer) > 0 THEN SubSeq(buffer, 1, Len(buffer) - 1) ELSE buffer,
                           calls, Tail(data))
            ELSE IF byte \in PrintableAscii
            THEN IF Len(buffer) < MAX_BUFFER_SIZE - 1
                 THEN InputFrom(Append(buffer, byte), calls, Tail(data))
                 ELSE [buffer |-> buffer, calls |-> calls, result |-> "BufferOverflow"]
            ELSE InputFrom(buffer, calls, Tail(data))

NoInput == [data |-> <<>>, form |-> "none", text |-> <<>>]

\* one call of Shell::input on a new shell
ShellInput(in) ==
    /\ sh_in = NoInput
    /\ sh_in' = in
    /\ LET out == InputFrom(sh_buffer, <<>>, in.data)
       IN /\ sh_buffer' = out.buffer
          /\ sh_calls' = out.calls
          /\ sh_result' = out.result
    /\ UNCHANGED <<otaVars, agentVars, mqttVars, httpVars, sessVars, pfVars, runVars, crcVars>>

ShellRest ==
    /\ sh_buffer = <<>>
    /\ sh_in = NoInput
    /\ sh_calls = <<>>
    /\ sh_result = "Ok"

PureRest == PfRest /\ RunRest /\ CrcRest /\ ShellRest

(***************************************************************************)
(* http Client::request.                                                   *)
(***************************************************************************)
HTTP_BUF_SIZE == 2048         \* request_buf, response_buf and Response.body
TEMP_BUF_SIZE == 256          \* temp_buf of the body loop
MAX_HEADERS == 16
MAX_HEADER_NAME_LEN == 64
U16_MAX == 65535
LEN_STR_SIZE == 10            \* String<10> len_str of Build Request

CRLF == <<"\r", "\n">>
HeadersEnd == CRLF \o CRLF
HttpVersion == <<"H", "T", "T", "P", "/", "1", ".", "1">>
UserAgentName == <<"U", "s", "e", "r", "-", "A", "g", "e", "n", "t">>

\* a header line "name: value\r\n"
HeaderLine(h) == h.name \o <<":", " ">> \o h.value \o CRLF

RECURSIVE HeaderLines(_)
HeaderLines(hs) == IF hs = <<>> THEN <<>> ELSE HeaderLine(Head(hs)) \o HeaderLines(Tail(hs))

\* Build Request: request line, headers and the synthetic User-Agent header;
\* then the whole request with
\* Content-Length and body
RequestHead(request) ==
    request.method \o <<" ">> \o request.path \o <<" ">> \o HttpVersion \o CRLF
    \o HeaderLines(request.headers)
    \o (IF \E i \in 1..Len(request.headers) :
              EqIgnoreAsciiCase(request.headers[i].name, UserAgentName)
        THEN <<>> ELSE UserAgentName \o <<":", ";">> \o CRLF)

BuildRequest(request) ==
    RequestHead(request)
    \o (IF request.body.some
        THEN LengthName \o <<":", " ">> \o request.body.len_str \o CRLF \o CRLF
             \o request.body.v
        ELSE CRLF)

\* `write!(len_str, "{}", body.len()).unwrap()` on a String<10>: whether
\* the decimal digits of the body length fit.  The line is reached when the
\* request line and the headers fitted the request buffer
LenStrFits(request) ==
    \/ ~request.body.some
    \/ Len(RequestHead(request)) > HTTP_BUF_SIZE
    \/ Len(request.body.len_str) <= LEN_STR_SIZE

\* find_slice
FindSlice(haystack, needle) ==
    LET at == {i \in 1..(Len(haystack) - Len(needle) + 1) :
                  SubSeq(haystack, i, i + Len(needle) - 1) = needle}
    IN IF at = {} THEN None ELSE (CHOOSE i \in at : \A j \in at : i <= j) - 1

\* str::lines: split at "\n"; a line that ended in "\n" loses a "\r" before
\* it; no empty last line
Lines(text) ==
    LET parts == Split(text, "\n")
        n == Len(parts)
        strip(l) == IF l # <<>> /\ l[Len(l)] = "\r" THEN SubSeq(l, 1, Len(l) - 1) ELSE l
        all == [i \in 1..n |-> IF i < n THEN strip(parts[i]) ELSE parts[i]]
    IN IF parts[n] = <<>> THEN SubSeq(all, 1, n - 1) ELSE all

\* str::parse::<u16>
ParseU16(text) == ParseUnsigned(text, Digits(U16_MAX))

NoParsed == [ok |-> FALSE, status |-> 0, headers |-> <<>>, content_length |-> None]

\* the header loop of Parse Response over the lines after the status line
RECURSIVE ParseHeaderLines(_, _)
ParseHeaderLines(lines, acc) ==
    IF lines = <<>> THEN acc
    ELSE IF Head(lines) = <<>> THEN ParseHeaderLines(Tail(lines), acc)
    ELSE LET colon == FindSlice(Head(lines), <<":">>)
         IN IF colon = None THEN NoParsed
            ELSE LET name == Trim(SubSeq(Head(lines), 1, colon))
                     value == Trim(SubSeq(Head(lines), colon + 2, Len(Head(lines))))
                     cl == IF EqIgnoreAsciiCase(name, LengthName)
                           THEN ParseUsize(value) ELSE acc.content_length
                 IN IF Len(name) > MAX_HEADER_NAME_LEN \/ Len(value) > MAX_HEADER_VALUE_LEN
                       \/ Len(acc.headers) >= MAX_HEADERS
                    THEN NoParsed
                    ELSE ParseHeaderLines(Tail(lines),
                             [acc EXCEPT !.headers = Append(@, [name |-> name, value |-> value]),
                                         !.content_length = cl])

\* core::str::from_utf8(header_data).is_ok()
HeaderUtf8(header_data) ==
    IsUtf8([i \in 1..Len(header_data) |-> ByteValue(header_data[i])])

\* Parse Response: status line and headers of the bytes before the blank line
ParseHead(header_data) ==
    LET lines == Lines(header_data)
    IN IF ~HeaderUtf8(header_data) \/ lines = <<>> THEN NoParsed
       ELSE LET status_parts == Split(lines[1], " ")
            IN IF Len(status_parts) < 2 THEN NoParsed
               ELSE LET status_code == ParseU16(status_parts[2])
                    IN IF status_code = None THEN NoParsed
                       ELSE ParseHeaderLines(Tail(lines),
                                [ok |-> TRUE, status |-> status_code, headers |-> <<>>,
                                 content_length |-> None])

\* a response on the wire, as tests/ota/mod.rs build_http_response lays it
\* out: status line, header lines, blank line, body
\* `match status`: the status line of 200, of 206, and of every other status
StatusLine(status) ==
    HttpVersion \o <<" ">>
    \o (CASE status = 200 -> <<"2", "0", "0", " ", "O", "K">>
          [] status = 206 -> <<"2", "0", "6", " ", "P", "a", "r", "t", "i", "a", "l", " ",
                               "C", "o", "n", "t", "e", "n", "t">>
          [] OTHER -> <<"5", "0", "0", " ", "E", "r", "r", "o", "r">>)
    \o CRLF

\* the status that line carries
WireStatus(status) == IF status \in {200, 206} THEN status ELSE 500

AnswerBytes(status, headers, sent) ==
    StatusLine(status) \o HeaderLines(headers) \o CRLF \o sent

Answer(status, headers, sent) ==
    [status |-> WireStatus(status), headers |-> headers, sent |-> sent,
     bytes |-> AnswerBytes(status, headers, sent)]

RawAnswer(bytes) == [status |-> 0, headers |-> <<>>, sent |-> <<>>, bytes |-> bytes]
NoAnswer == RawAnswer(<<>>)

\* the body length a response declares: the value of its one Content-Length
\* header, None when it has none or several
Declared(answer) ==
    LET at == {i \in 1..Len(answer.headers) :
                  EqIgnoreAsciiCase(answer.headers[i].name, LengthName)}
    IN IF Cardinality(at) = 1
       THEN ParseUsize(answer.headers[CHOOSE i \in at : TRUE].value) ELSE None

\* hc_conn after one more request, answered with `answer`
ConnAfter(answer) ==
    [calls |-> hc_conn.calls + 1,
     sound |-> /\ hc_conn.sound
               /\ Declared(answer) # None
               /\ Declared(answer) = Len(answer.sent),
     all_ok |-> hc_conn.calls = 0 \/ (hc_conn.all_ok /\ hc_result.tag = "Ok")]

HcResult(tag, status, headers, body) ==
    [tag |-> tag, status |-> status, headers |-> headers, body |-> body]
HcErr(e) == HcResult(e, 0, <<>>, <<>>)
HcNone == HcErr("none")

HcReturn(res) ==
    /\ hc_result' = res
    /\ hc_pc' = "done"

\* variant of BodyComplete: the loop stops one byte before the declared length
BodyCompleteOneShort(body, len) == ~(Len(body) + 1 < len)

\* variant of BodyEof: the bytes received so far are returned as the body
BodyEofShort(parsed, body) == HcResult("Ok", parsed.status, parsed.headers, body)

\* `Ok(0) => return Err(Error::ConnectionClosed), // Prematurely closed`
BodyEof(parsed, body) == HcErr("ConnectionClosed")

\* variant of BodyComplete: the body is taken as it came with the headers
BodyCompleteAtOnce(body, len) == TRUE

\* the exit condition of `while body.len() < len`
BodyComplete(body, len) == ~(Len(body) < len)

\* The body loop from its condition on, then the truncation and Ok.
BodyLoop(parsed, body) ==
    /\ hc_parsed' = parsed
    /\ IF parsed.content_length # None /\ ~BodyComplete(body, parsed.content_length)
       THEN IF Len(body) = HTTP_BUF_SIZE
            THEN HcReturn(HcErr("ProtocolError")) /\ hc_body' = body
            ELSE hc_pc' = "body" /\ hc_body' = body /\ UNCHANGED hc_result
       ELSE LET out == IF parsed.content_length # None /\ Len(body) > parsed.content_length
                       THEN SubSeq(body, 1, parsed.content_length) ELSE body
            IN /\ hc_body' = out
               /\ HcReturn(HcResult("Ok", parsed.status, parsed.headers, out))

\* Parse Response on response_buf[..total_read]
ParseResponse(response_data) ==
    LET header_end_pos == FindSlice(response_data, HeadersEnd)
    IN IF header_end_pos = None
       THEN HcReturn(HcErr("ProtocolError")) /\ UNCHANGED <<hc_parsed, hc_body>>
       ELSE LET parsed == ParseHead(SubSeq(response_data, 1, header_end_pos))
                body_data == SubSeq(response_data, header_end_pos + 5, Len(response_data))
            IN IF ~parsed.ok
               THEN HcReturn(HcErr("ProtocolError")) /\ UNCHANGED <<hc_parsed, hc_body>>
               ELSE BodyLoop(parsed, body_data)

\* Build Request and Send Request: the transport accepts `accept` bytes of
\* the write (-1: the write fails) and then flushes or fails to (flush_ok);
\* the server answers with `answer` once the transport has the whole
\* request.  The call may be the first on its connection or a later one;
\* what an earlier call left unread is still to be delivered.
HttpSend(request, answer, accept, flush_ok) ==
    /\ hc_pc \in {"idle", "done"}
    /\ hc_conn.calls < MaxCalls
    /\ UNCHANGED <<otaVars, agentVars, mqttVars, sessVars, pureVars>>
    /\ hc_conn' = ConnAfter(answer)
    /\ LET request_buf == BuildRequest(request)
       IN /\ hc_req' = request_buf
          /\ hc_buf' = <<>>
          /\ hc_body' = <<>>
          /\ hc_parsed' = NoParsed
          /\ IF ~LenStrFits(request)
             THEN /\ HcReturn(HcErr("Panic"))
                  /\ hc_out' = <<>> /\ hc_resp' = NoAnswer
                  /\ UNCHANGED hc_in
             ELSE IF Len(request_buf) > HTTP_BUF_SIZE \/ accept = -1
             THEN /\ HcReturn(HcErr("WriteError"))
                  /\ hc_out' = <<>> /\ hc_resp' = NoAnswer
                  /\ UNCHANGED hc_in
             ELSE LET n == Min(accept, Len(request_buf))
                  IN /\ hc_out' = SubSeq(request_buf, 1, n)
                     /\ hc_resp' = answer
                     /\ hc_in' = IF n = Len(request_buf) THEN hc_in \o answer.bytes
                                 ELSE hc_in
                     /\ IF flush_ok
                        THEN hc_pc' = "headers" /\ UNCHANGED hc_result
                        ELSE HcReturn(HcErr("WriteError"))

\* One connection.read of Receive Response or of the body loop: the
\* transport hands over at most `give` bytes, or fails.
HttpRead(give, fails) ==
    /\ hc_pc \in {"headers", "body"}
    /\ UNCHANGED <<hc_req, hc_out, hc_resp, hc_conn, otaVars, agentVars, mqttVars, sessVars,
                   pureVars>>
    /\ IF fails
       THEN HcReturn(HcErr("ReadError")) /\ UNCHANGED <<hc_in, hc_buf, hc_parsed, hc_body>>
       ELSE IF hc_pc = "headers"
       THEN LET r == ReadBytes(hc_in, HTTP_BUF_SIZE - Len(hc_buf), give)
                buf == hc_buf \o r.data
            IN /\ hc_in' = r.rest
               /\ hc_buf' = buf
               /\ IF r.data = <<>>
                  THEN IF hc_buf # <<>> THEN ParseResponse(buf)
                       ELSE HcReturn(HcErr("ConnectionClosed"))
                            /\ UNCHANGED <<hc_parsed, hc_body>>
                  ELSE IF Len(buf) >= HTTP_BUF_SIZE \/ FindSlice(buf, HeadersEnd) # None
                  THEN ParseResponse(buf)
                  ELSE UNCHANGED <<hc_pc, hc_parsed, hc_body, hc_result>>
       ELSE LET read_len == Min(hc_parsed.content_length - Len(hc_body), TEMP_BUF_SIZE)
                r == ReadBytes(hc_in, read_len, give)
            IN /\ hc_in' = r.rest
               /\ UNCHANGED hc_buf
               /\ IF r.data = <<>>
                  THEN HcReturn(BodyEof(hc_parsed, hc_body)) /\ UNCHANGED <<hc_parsed, hc_body>>
                  ELSE IF Len(hc_body) + Len(r.data) > HTTP_BUF_SIZE
                    THEN HcReturn(HcErr("ProtocolError")) /\ UNCHANGED <<hc_parsed, hc_body>>
                    ELSE BodyLoop(hc_parsed, hc_body \o r.data)

\* The connection is dropped and a new client made on a new one.
HttpClientNew ==
    /\ hc_pc = "done"
    /\ hc_pc' = "idle"
    /\ hc_req' = <<>> /\ hc_out' = <<>> /\ hc_in' = <<>> /\ hc_buf' = <<>>
    /\ hc_parsed' = NoParsed /\ hc_body' = <<>> /\ hc_result' = HcNone
    /\ hc_resp' = NoAnswer
    /\ hc_conn' = [calls |-> 0, sound |-> TRUE, all_ok |-> TRUE]
    /\ UNCHANGED <<otaVars, agentVars, mqttVars, sessVars, pureVars>>

HttpRest ==
    /\ hc_pc = "idle"
    /\ hc_req = <<>> /\ hc_out = <<>> /\ hc_in = <<>> /\ hc_buf = <<>>
    /\ hc_parsed = NoParsed /\ hc_body = <<>> /\ hc_result = HcNone
    /\ hc_resp = NoAnswer
    /\ hc_conn = [calls |-> 0, sound |-> TRUE, all_ok |-> TRUE]

(***************************************************************************)
(* Inputs of the calls.                                                    *)
(***************************************************************************)
RECURSIVE Repeat(_, _)
Repeat(b, n) == IF n = 0 THEN <<>> ELSE <<b>> \o Repeat(b, n - 1)

HostLens == {11, MAX_HEADER_VALUE_LEN + 1}
CrcInputs(size) == IF size = UsizeMax THEN {NoCrc}
                   ELSE {NoCrc, SomeCrc(Crc32Of(Repeat(B1, size)))}

\* The calls followed: any arguments on a new engine; a later call on the
\* same engine repeats the arguments of the first, with an erase that
\* succeeds.
CallFollowed(size, base, host_len, crc32, eraseOk, withMqtt) ==
    runs > 0 => /\ size = src.size /\ base = base_offset
                /\ host_len = src.host_len /\ crc32 = src.crc32
                /\ withMqtt = mqtt /\ eraseOk

\* the driver at rest, for the specifications of the other components
OtaRest ==
    OtaInit /\ cfg = [chunk_size |-> 1, erase_before_write |-> FALSE, verify_crc32 |-> FALSE]

SideInit == PlatformInit /\ AgentInitState /\ MqttRest /\ HttpRest /\ SessRest /\ PureRest

Init == OtaInit /\ SideInit

Next ==
    \/ \E c \in ConfigInputs : OtaNew(c)
    \/ Cancel
    \/ \E size \in (0..MaxSize) \cup {UsizeMax}, base \in 0..MaxBase, h \in HostLens,
          eraseOk \in BOOLEAN :
           \E c32 \in CrcInputs(size), withMqtt \in BOOLEAN :
               /\ CallFollowed(size, base, h, c32, eraseOk, withMqtt)
               /\ RunHttpCall(size, base, h, c32, eraseOk, withMqtt)
    \/ LoopTop
    \/ HttpRequest

Spec == Init /\ [][Next]_vars

\* The platform, agent and manager on their own.
AgentInit == OtaRest /\ PlatformInit /\ AgentInitState /\ MqttRest /\ HttpRest /\ SessRest /\ PureRest

AgentNext ==
    \/ OtaManagerNew
    \/ \E event \in Events : ProcessEvent(event)
    \/ \E call \in SaveCalls : SaveFirmwareChunk(call[1], call[2])

AgentSpec == AgentInit /\ [][AgentNext]_vars

\* The MQTT client on its own.
MqttInit == OtaRest /\ PlatformInit /\ AgentInitState /\ MqttInitState /\ HttpRest /\ SessRest
            /\ PureRest

MqttNext == \E give \in 1..(5 + MaxPayload), failAt \in 0..3 : Poll(give, failAt)

MqttSpec == MqttInit /\ [][MqttNext]_vars

\* The HTTP client on its own.
GetWord == <<"G", "E", "T">>
PostWord == <<"P", "O", "S", "T">>
HostName == <<"H", "o", "s", "t">>
NoBody == [some |-> FALSE, v |-> <<>>, len_str |-> <<>>]
\* a body and the decimal digits of its length
Body(v) == [some |-> TRUE, v |-> v, len_str |-> Digits(Len(v))]
\* a body of 10^10 bytes (a 64-bit target): the model holds its length only
HugeBody == [some |-> TRUE, v |-> <<>>,
             len_str |-> <<"1", "0", "0", "0", "0", "0", "0", "0", "0", "0", "0">>]

Requests ==
    { [method |-> GetWord, path |-> <<"/">>, headers |-> <<>>, body |-> NoBody],
      [method |-> GetWord, path |-> <<"/", "f">>,
       headers |-> <<[name |-> HostName, value |-> <<"h">>],
                     [name |-> ToAsciiLowercase(UserAgentName), value |-> <<"a">>]>>,
       body |-> NoBody],
      [method |-> PostWord, path |-> <<"/">>, headers |-> <<>>,
       body |-> Body(<<"1">>)] }

\* GET requests of 2048 and of 2049 bytes, and a POST of the body of 10^10
\* bytes
PathOf(n) == [i \in 1..n |-> IF i = 1 THEN "/" ELSE "a"]
LongRequests ==
    { [method |-> GetWord, path |-> PathOf(HTTP_BUF_SIZE - 31), headers |-> <<>>,
       body |-> NoBody],
      [method |-> GetWord, path |-> PathOf(HTTP_BUF_SIZE - 30), headers |-> <<>>,
       body |-> NoBody],
      [method |-> PostWord, path |-> <<"/">>, headers |-> <<>>, body |-> HugeBody] }

BodyChars == {"1", "2"}

\* U+00E9 as text
EAcuteText == <<"xC3", "xA9">>

\* header lists of a response that declares `len` body bytes, and one that
\* declares none
AnswerHeaders(len) ==
    { <<[name |-> LengthName, value |-> Digits(len)]>>,
      <<[name |-> HostName, value |-> <<"h">>],
        [name |-> ToAsciiLowercase(LengthName), value |-> Digits(len)]>>,
      <<>> }

Answers ==
    { Answer(200, headers, sent) :
          headers \in UNION {AnswerHeaders(len) : len \in 0..MaxBody},
          sent \in SeqsUpTo(BodyChars, MaxBody + 1) }
    \cup { Answer(status, <<[name |-> LengthName, value |-> <<"1">>]>>, <<"1">>) :
               status \in {206, 404} }
    \cup { NoAnswer,
           RawAnswer(<<"x">>),
           RawAnswer(HttpVersion \o <<" ", "o", "k">> \o HeadersEnd),
           RawAnswer(HttpVersion \o <<" ", "2", "0", "0">> \o CRLF \o <<"b", "a", "d">>
                     \o HeadersEnd),
           RawAnswer(StatusLine(200) \o <<"V", ":", "xE9">> \o HeadersEnd) }
    \cup { Answer(200, <<[name |-> <<"V">>, value |-> EAcuteText],
                         [name |-> LengthName, value |-> <<"1">>]>>, <<"1">>) }

\* what one write accepts: nothing (the write fails), one byte, everything
Accepts == {-1, 1, HTTP_BUF_SIZE}

\* what one read hands over at most
Gives == {1, 2, HTTP_BUF_SIZE}

HttpInit == OtaRest /\ PlatformInit /\ AgentInitState /\ MqttRest /\ HttpRest /\ SessRest /\ PureRest

\* A connection is used again after a request that returned Ok, and after
\* the request of a chunk that failed: run_http sends that one again,
\* whether the server had answered it (206) or had not.  The answers to a
\* later request: the body declared, and one byte more than declared
FollowAnswers ==
    { Answer(206, <<[name |-> LengthName, value |-> Digits(MaxBody)]>>,
             [i \in 1..n |-> "2"]) : n \in {MaxBody, MaxBody + 1} }

FirstRequest == [method |-> GetWord, path |-> <<"/">>, headers |-> <<>>, body |-> NoBody]

HttpNext ==
    \/ \E request \in Requests, answer \in Answers, accept \in Accepts, flush_ok \in BOOLEAN :
           hc_pc = "idle" /\ HttpSend(request, answer, accept, flush_ok)
    \/ \E request \in LongRequests :
           hc_pc = "idle" /\ HttpSend(request, Answer(200, <<>>, <<>>), HTTP_BUF_SIZE, TRUE)
    \/ \E answer \in FollowAnswers :
           /\ hc_pc = "done" /\ hc_result.tag = "Ok"
           /\ HttpSend(FirstRequest, answer, HTTP_BUF_SIZE, TRUE)
    \/ \E answer \in FollowAnswers :
           /\ hc_pc = "done" /\ hc_result.tag \notin {"Ok", "Panic"}
           /\ hc_resp = NoAnswer \/ hc_resp.status = 206
           /\ HttpSend(FirstRequest, answer, HTTP_BUF_SIZE, TRUE)
    \/ \E give \in Gives, fails \in BOOLEAN : HttpRead(give, fails)
    \/ HttpClientNew

HttpSpec == HttpInit /\ [][HttpNext]_vars

\* The writing calls of the MQTT client, and the broker echoing a PUBLISH.
ConnectOptions ==
    { [client_id |-> <<99>>, keep_alive_seconds |-> 10, clean_session |-> TRUE],        \* "c"
      [client_id |-> <<99, 49>>, keep_alive_seconds |-> 300, clean_session |-> FALSE] } \* "c1"

\* CONNACK replies, whole and cut short
ConnackReplies ==
    LET valid == {<<CONNACK, 2, b2, b3>> : b2 \in {0, 1}, b3 \in {0, 1, 5, 6, 255}}
        other == {<<b[1], b[2], 0, b3>> : b \in {<<SUBACK, 2>>, <<CONNACK, 3>>, <<SUBACK, 3>>},
                                         b3 \in {0, 1, 6}}
    IN valid \cup other \cup {<<>>, <<CONNACK, 2, 0>>}

\* SUBACK replies, whole and cut short: packet identifiers 1, 0 and 257
SubackReplies ==
    LET whole == {<<b0, 3, id[1], id[2], b4>> : b0 \in {SUBACK, CONNACK},
                                               id \in {<<0, 1>>, <<0, 0>>, <<1, 1>>},
                                               b4 \in {0, 128}}
    IN whole \cup {<<>>, <<SUBACK, 3, 0, 1>>}

QosLevels == {0, 1, 2}

\* what the transport does during one call: <<give, wfail, rfail>>, where
\* nw is the number of writes of the call
Faults(nw) ==
    {<<give, 0, 0>> : give \in {1, 5}}
    \cup {<<5, wfail, 0>> : wfail \in 1..(nw + 1)}
    \cup {<<1, 0, rfail>> : rfail \in 1..2}

\* topics and payloads that fit the packet buffer, and one of each that
\* does not
LongTopic == [i \in 1..(MAX_PACKET_LEN - 1) |-> 97]
LongPayload == [i \in 1..(MAX_PACKET_LEN - 2) |-> B1]
Topics == TopicBytes \cup {<<>>}
Payloads == SeqsUpTo(BodyBytes, MaxPayload)

ProgressInputs ==
    [bytes : {0, MaxPayload}, total : {MaxPayload, 1000}, state : {"downloading", "failed"}]

SessInit == OtaRest /\ PlatformInit /\ AgentInitState /\ MqttRest /\ HttpRest /\ SessRest /\ PureRest

\* The client makes its calls; the broker then echoes the last PUBLISH and
\* the client polls for it.
SessNext ==
    \/ mq_sent = <<>> /\ \E options \in ConnectOptions, reply \in ConnackReplies, f \in Faults(3) :
                            Connect(options, reply, f[1], f[2], f[3])
    \/ mq_sent = <<>> /\ \E topic \in Topics \cup {LongTopic}, qos \in QosLevels, wfail \in {0, 2} :
                            \E payload \in Payloads \cup {LongPayload} :
                                MqttPublish(topic, payload, qos, wfail)
    \/ mq_sent = <<>> /\ \E topic \in TopicBytes, qos \in {0, 1}, reply \in SubackReplies,
                            f \in Faults(2) : Subscribe(topic, qos, reply, f[1], f[2], f[3])
    \/ mq_sent = <<>> /\ \E topic \in TopicBytes \cup {LongTopic}, p \in ProgressInputs,
                            wfail \in {0, 1} : PublishProgress(topic, p, wfail)
    \/ mq_sent = <<>> /\ Deliver
    \/ \E give \in 1..(5 + MaxPayload), failAt \in 0..3 : Poll(give, failAt)

SessSpec == SessInit /\ [][SessNext]_vars

\* The bounds check on its own: offsets and sizes that are small, around
\* 2^31 and around 2^32, on targets with a usize of 32 and of 64 bits.
U32Values ==
    {Wide(0, b) : b \in 0..MaxBase} \cup {Wide(HALF \div 2, 0), Wide(HALF - 1, HALF - 1)}

UsizeValues(bits) ==
    {Wide(0, n) : n \in 0..MaxSize} \cup {Wide(HALF \div 2, 0), Wide(HALF - 1, HALF - 1)}
    \cup (IF bits = 64 THEN {Wide(HALF, 0), Wide(2 * HALF, 0)} ELSE {})

PreflightInputs ==
    UNION {[base : U32Values, size : UsizeValues(bits), capacity : UsizeValues(bits),
            usize_bits : {bits}, erase : BOOLEAN] : bits \in {32, 64}}

PfInit == OtaRest /\ PlatformInit /\ AgentInitState /\ MqttRest /\ HttpRest /\ SessRest /\ PureRest

PfNext == \E in \in PreflightInputs : PreflightCall(in)

PfSpec == PfInit /\ [][PfNext]_vars

\* run_http as a function, with every choice of failing publish calls.
\* The topics of the publisher: a short one, the longest one with which
\* the message of a downloaded chunk fits the packet buffer (the sizes of
\* the model have one digit), and the topic one byte longer.
TopicLens == {11, MAX_PACKET_LEN - 45, MAX_PACKET_LEN - 44}

ServerKinds == {"good", "error", "down", "status", "short", "range", "write"}

RunInputs ==
    [cfg : [chunk_size : 1..MaxChunk, erase_before_write : {TRUE}, verify_crc32 : {TRUE}],
     size : 1..MaxSize, base : {0}, host_len : {11}, canceled : {FALSE},
     eraseOk : {TRUE}, mqtt : {TRUE},
     crc32 : {NoCrc, SomeCrc(CrcNew)},
     server : [kind : ServerKinds, at : {1, MaxSize}],
     pub_errs : SUBSET (1..(MaxSize + 2)),
     topic_len : TopicLens]
    \cup
    [cfg : [chunk_size : {1}, erase_before_write : BOOLEAN, verify_crc32 : {FALSE}],
     size : {0, MaxSize, UsizeMax}, base : {0, MaxBase}, host_len : HostLens, canceled : BOOLEAN,
     eraseOk : BOOLEAN, mqtt : BOOLEAN,
     crc32 : {NoCrc},
     server : [kind : {"good"}, at : {1}],
     pub_errs : {{}, {1}},
     topic_len : {11}]

RunInit == OtaRest /\ PlatformInit /\ AgentInitState /\ MqttRest /\ HttpRest /\ SessRest /\ PureRest

RunNext == \E in \in RunInputs : RunHttpTwice(in)

RunSpec == RunInit /\ [][RunNext]_vars

\* Crc32 on its own: every buffer of up to MaxCrcLen bytes over a few byte
\* values, and the nine ASCII digits "123456789", at every split point.
CrcBytes == {0, 1, 128, 255}
CheckString == [i \in 1..9 |-> 48 + i]
CrcBuffers == UNION {[1..n -> CrcBytes] : n \in 0..MaxCrcLen} \cup {CheckString}

CrcInit == OtaRest /\ PlatformInit /\ AgentInitState /\ MqttRest /\ HttpRest /\ SessRest /\ PureRest

CrcNext == \E data \in CrcBuffers : \E k \in 0..Len(data) : CrcSplit(data, k)

CrcSpec == CrcInit /\ [][CrcNext]_vars

(***************************************************************************)
(* The shell alone: lines with one double-quoted argument, and other lines.*)
(***************************************************************************)
\* the characters of the content of an argument
ContentChars == {"a", ASCII_SPACE, QUOTE, BACKSLASH, "\n", "\t", "\r"}

Contents == UNION {[1..n -> ContentChars] : n \in 0..MaxText}

\* how a character is written inside double quotes
EscapeOf(ch) ==
    CASE ch = QUOTE -> <<BACKSLASH, QUOTE>>
      [] ch = BACKSLASH -> <<BACKSLASH, BACKSLASH>>
      [] ch = "\n" -> <<BACKSLASH, "n">>
      [] ch = "\t" -> <<BACKSLASH, "t">>
      [] ch = "\r" -> <<BACKSLASH, "r">>
      [] OTHER -> <<ch>>

RECURSIVE Escaped(_)
Escaped(text) == IF text = <<>> THEN <<>> ELSE EscapeOf(Head(text)) \o Escaped(Tail(text))

\* the line typed for the command with `text` as a double-quoted argument:
\* closed, left open at the end of the line, with a plain argument after it
\* and with one before it
LineOf(form, text) ==
    CASE form = "closed" -> CommandName \o <<ASCII_SPACE, QUOTE>> \o Escaped(text) \o <<QUOTE>>
      [] form = "open" -> CommandName \o <<ASCII_SPACE, QUOTE>> \o Escaped(text)
      [] form = "then" -> CommandName \o <<ASCII_SPACE, QUOTE>> \o Escaped(text)
                              \o <<QUOTE, ASCII_SPACE, "a">>
      [] form = "after" -> CommandName \o <<ASCII_SPACE, "a", ASCII_SPACE, QUOTE>>
                               \o Escaped(text) \o <<QUOTE>>

QuotedForms == {"closed", "open", "then", "after"}

\* other data: plain arguments, a correction with backspace, the help flag,
\* the list command, an unknown command, an empty line, two lines, a line
\* that ends in a backslash, an unknown escape, and a tab that input drops
OtherData ==
    { <<"c", " ", "a", " ", " ", "a", "\r">>,
      <<"c", "a", "BS", " ", "a", "DEL", "\n">>,
      <<"c", " ", "-", "h", "\r">>,
      <<"a", "\r">>,
      <<"\r">>,
      <<"c", "\r", "c", " ", "a", "\n">>,
      <<"c", " ", "\"", "a", "\\", "\r">>,
      <<"c", " ", "\"", "\\", "a", "\"", "\r">>,
      <<"c", "\t", " ", "a", "\"", "a", "\r">>,
      <<"c", " ", "a">>,
      <<"l", "i", "s", "t", "\r">>,
      <<"c", " ", "x", "\r">>,
      <<"c", " ", "-", "-", "h", "e", "l", "p", "\r">>,
      <<"t", "e", "s", "t", " ", "-", "-", "h", "e", "l", "p", "\r">> }

ShellInputs ==
    {[data |-> LineOf(form, text) \o <<ASCII_CR>>, form |-> form, text |-> text] :
         form \in QuotedForms, text \in Contents}
    \cup {[data |-> data, form |-> "other", text |-> <<>>] : data \in OtherData}

ShellInit == OtaRest /\ PlatformInit /\ AgentInitState /\ MqttRest /\ HttpRest /\ SessRest /\ PureRest

ShellNext == \E in \in ShellInputs : ShellInput(in)

ShellSpec == ShellInit /\ [][ShellNext]_vars

(***************************************************************************)
(* Properties.                                                             *)
(***************************************************************************)
Returned == pc = "idle" /\ runs > 0        \* the last call of run_http has returned
ProtocolErrorResult == R("Network", "ProtocolError")
\* the response was refused: nothing was handed to storage.write for it
FailedWithProtocolError ==
    pc = "idle" /\ state = "Failed" /\ result = ProtocolErrorResult /\ ~resp.accepted

\* storage bytes at [base, base + n)
StorageRange(base, n) == [i \in 1..n |-> storage[base + i - 1]]

\* C1: when run_http returns Ok, the storage bytes at
\* [base_offset, base_offset + size) are the concatenation, in request order,
\* of the bodies of the 206 responses received.
C1_StorageIsBodies ==
    (Returned /\ result = Ok) => StorageRange(base_offset, src.size) = bodies

\* C2: a 206 response whose body length differs from the requested len
\* (shorter, empty or longer) makes the run fail with Network(ProtocolError),
\* state Failed, and the chunk is not written.
C2_BodyLengthExact ==
    (resp.status = 206 /\ resp.bodyLen # resp.len) => FailedWithProtocolError

\* C3: a 206 response that does not carry exactly one Content-Range header
\* (none, or two or more) makes the run fail with Network(ProtocolError),
\* state Failed, and the chunk is not written.
C3_ExactlyOneContentRange ==
    (resp.status = 206 /\ resp.crHeaders # 1) => FailedWithProtocolError

\* C4: a 206 response none of whose Content-Range values parses with start
\* and end equal to the requested range and a total that is "*" or the
\* firmware size makes the run fail with Network(ProtocolError), state
\* Failed, and the chunk is not written.
C4_ContentRangeValue ==
    (resp.status = 206 /\ ~resp.crMatch) => FailedWithProtocolError

\* C5: a response whose status is not 206 ends the run with state Failed and
\* Network(ProtocolError); the request is not retried, and neither that
\* chunk nor a later one is written.
C5_Non206Rejected ==
    (resp.status # 0 /\ resp.status # 206) =>
        /\ FailedWithProtocolError
        /\ chunkReqs = attempt + 1
        /\ Len(writes) * cfg.chunk_size = downloaded

C5_Witness ==
    resp.status = 200 /\ Returned /\ state = "Failed" /\ Len(writes) = 1 /\ attempt = 1

\* C6: every chunk is requested at most three times; a failed request is
\* retried at once, the attempt count of a chunk starts at zero, and when the
\* third attempt fails the run ends with state Failed and Network(e), e
\* being the error of that attempt.
C6_ThreeAttempts ==
    /\ chunkReqs <= 3
    /\ pc = "request" => (attempt = chunkReqs /\ attempt < 3)
    /\ (pc = "idle" /\ attempt >= 3) =>
           (attempt = 3 /\ chunkReqs = 3 /\ state = "Failed" /\ result = R("Network", lastErr))
    /\ (Returned /\ requested /\ chunkReqs > 0 /\ resp = NoResp) =>
           (attempt = 3 /\ result = R("Network", lastErr))
    /\ resp.written => chunkReqs = attempt + 1

C6_Witness ==
    Returned /\ attempt = 3 /\ state = "Failed" /\ Len(writes) = 1
    /\ result = R("Network", "ReadError")

\* C7: a call of run_http on an engine whose state is Completed, Failed or
\* Canceled leaves the state unchanged and performs no erase, no write and
\* no HTTP request.
C7_TerminalAbsorbing ==
    callState \in TerminalStates =>
        (state = callState /\ erases = <<>> /\ writes = <<>> /\ ~requested)

\* C8: whenever run_http returns an error the state is Failed or Canceled.
C8_ErrorIsTerminal ==
    (Returned /\ result.tag \notin {"none", "Ok"}) => state \in {"Failed", "Canceled"}

\* C9 as stated: a run started after cancel() returns Canceled with state
\* Canceled and performs no erase, no write and no HTTP request.
C9_CancelBeforeRun ==
    (Returned /\ callCanceled) =>
        /\ result = R("Canceled", "-") /\ state = "Canceled"
        /\ erases = <<>> /\ writes = <<>> /\ ~requested

\* C9 amended: a run started after cancel() whose arguments pass the
\* validation (size >= 1 and base_offset + size <= capacity) returns Canceled
\* with state Canceled and performs no erase, no write and no HTTP request; a
\* run whose arguments fail the validation returns InvalidConfig instead,
\* also without erase, write or request.
C9_CancelBeforeRunValid ==
    callCanceled =>
        /\ erases = <<>> /\ writes = <<>> /\ ~requested /\ pc = "idle"
        /\ IF src.size >= 1 /\ base_offset + src.size <= Capacity
           THEN result = R("Canceled", "-") /\ state = "Canceled"
           ELSE result = R("InvalidConfig", "-")

C9_Witness ==
    /\ Returned /\ callCanceled /\ state = "Canceled" /\ cfg.erase_before_write
    /\ src.size >= 1 /\ callState = "Idle"

InTrail(st) == \E i \in 1..Len(trail) : trail[i] = st

\* C11: with verify_crc32 set and an expected checksum given, run_http
\* returns Ok only if the CRC-32 of the size bytes in storage equals the
\* expected checksum; on a mismatch at the Verify step it returns
\* VerifyFailed with state Failed, the last event published (when a
\* publisher is attached) is the one "failed" event, and the state never
\* becomes Finalizing or Completed.
C11_VerifyGuardsOk ==
    (Returned /\ VerifyChecked) =>
        LET actual == Crc32Of(StorageRange(base_offset, src.size))
            failed == [bytes |-> src.size, total |-> src.size, state |-> "failed"]
        IN /\ result = Ok => actual = src.crc32.v
           /\ (InTrail("Verifying") /\ actual # src.crc32.v) =>
                 /\ result = R("VerifyFailed", "-") /\ state = "Failed"
                 /\ ~InTrail("Finalizing") /\ ~InTrail("Completed")
                 /\ mqtt => /\ published # <<>>
                            /\ published[Len(published)] = failed
                            /\ Cardinality({i \in 1..Len(published) :
                                               published[i].state = "failed"}) = 1

C11_Witness ==
    /\ Returned /\ VerifyChecked /\ mqtt /\ Len(writes) = 2
    /\ result = R("VerifyFailed", "-") /\ state = "Failed"
    /\ Len(published) = 3

\* total length of the first n logged writes, and their bytes in order
RECURSIVE WrittenLen(_)
WrittenLen(n) == IF n = 0 THEN 0 ELSE WrittenLen(n - 1) + Len(writes[n].data)
RECURSIVE WrittenBytes(_)
WrittenBytes(n) == IF n = 0 THEN <<>> ELSE WrittenBytes(n - 1) \o writes[n].data

\* C16: within one run the storage writes are at strictly increasing
\* offsets, the first at base_offset and each next one at base_offset plus
\* the lengths of the earlier chunks, so no offset is written twice; and
\* when the request for the next chunk is about to be sent, every earlier
\* chunk is in storage and in the CRC and counted in downloaded.
C16_WritesInOrder ==
    /\ \A i \in 1..Len(writes) :
           /\ writes[i].off = base_offset + WrittenLen(i - 1)
           /\ Len(writes[i].data) >= 1
    /\ \A i, j \in 1..Len(writes) :
           i < j => writes[i].off + Len(writes[i].data) <= writes[j].off
    /\ pc = "request" =>
           /\ downloaded = WrittenLen(Len(writes))
           /\ StorageRange(base_offset, downloaded) = WrittenBytes(Len(writes))
           /\ crc = CrcUpdate(CrcNew, WrittenBytes(Len(writes)))

C16_Witness ==
    pc = "request" /\ Len(writes) = 1 /\ downloaded = 1 /\ requested /\ chunkReqs = 2

\* C12: in one run the OTA-persistent record is written exactly once with
\* state Pending when the run returns Ok, exactly once with state Failed,
\* version 0 and checksum 0 when it returns VerifyFailed, and not at all on
\* every other outcome.
C12_RecordWrittenOnce ==
    Returned =>
        /\ result = Ok =>
              (Len(record_writes) = 1 /\ record_writes[1].state = "Pending")
        /\ result = R("VerifyFailed", "-") =>
              record_writes = <<OtaData("Failed", 0, ZeroSum)>>
        /\ result \notin {Ok, R("VerifyFailed", "-")} => record_writes = <<>>

\* C13: OtaManager::new on a Pending record rewrites it exactly once, with
\* state Success and the same version and checksum; on an Idle, Success or
\* Failed record it writes nothing and leaves the record as it was.
C13_PendingPromotedOnce ==
    new_before.state # "-" =>
        IF new_before.state = "Pending"
        THEN /\ new_writes =
                    <<OtaData("Success", new_before.version, new_before.checksum)>>
             /\ ota_data = new_writes[1]
        ELSE new_writes = <<>> /\ ota_data = new_before

C13_Witness ==
    /\ new_before.state = "Pending" /\ ota_data.state = "Success"
    /\ ota_data.version = 2 /\ active_partition_index = 1

\* C14: the agent follows one fixed sequence. Every event delivered from
\* the state the sequence names is accepted and takes the agent to the next
\* state: UpdateAvailable(fw) from Idle to Downloading(fw) with the
\* event's firmware, DownloadComplete from Downloading(fw) to Verifying(fw),
\* VerificationComplete from Verifying(fw) to Activating when the stored
\* image's checksum is fw.checksum, which also sets the record to Pending
\* with fw's version and checksum, and ActivationComplete from Activating
\* to Idle. VerificationComplete on another checksum is refused and leaves
\* the agent Failed; every other event is refused and leaves the agent
\* where it was.
C14_AgentSequence ==
    step.event # "-" =>
        /\ agent_state = step.to
        /\ IF step.from = AgentIdle /\ step.event = "UpdateAvailable"
           THEN step.ok /\ step.to = AgentState("Downloading", step.fw)
           ELSE IF step.from.tag = "Downloading" /\ step.event = "DownloadComplete"
           THEN step.ok /\ step.to = AgentState("Verifying", step.from.fw)
           ELSE IF step.from.tag = "Verifying" /\ step.event = "VerificationComplete"
           THEN IF ImageChecksum(step.from.fw) = SomeCrc(step.from.fw.checksum)
                THEN /\ step.ok
                     /\ step.to = AgentState("Activating", NoFirmware)
                     /\ ota_data = OtaData("Pending", step.from.fw.version,
                                           step.from.fw.checksum)
                ELSE ~step.ok /\ step.to = AgentState("Failed", NoFirmware)
           ELSE IF step.from = AgentState("Activating", NoFirmware)
                   /\ step.event = "ActivationComplete"
           THEN step.ok /\ step.to = AgentIdle
           ELSE ~step.ok /\ step.to = step.from

\* the whole sequence was walked with the firmware of version 2: the last
\* event, ActivationComplete, was accepted and the record is Pending
C14_Witness ==
    /\ step.ok /\ step.event = "ActivationComplete" /\ agent_state = AgentIdle
    /\ ota_data.state = "Pending" /\ ota_data.version = 2

\* C15: while an update is being downloaded, verified and activated the
\* active partition is the one it was when the update began; once
\* ActivationComplete is accepted the boot partition and the active
\* partition are the partition that was inactive when the update began.
C15_RolesSwap ==
    /\ agent_state.tag \in {"Downloading", "Verifying", "Activating", "Failed"} =>
          active_partition_index = start_active
    /\ (step.ok /\ step.event = "ActivationComplete") =>
          /\ active_partition_index = 1 - start_active
          /\ boot_partition_index = 1 - start_active
          /\ get_inactive_partition = Partitions[start_active]

C15_Witness ==
    /\ step.ok /\ step.event = "ActivationComplete"
    /\ start_active = 1 /\ active_partition_index = 0 /\ boot_partition_index = 0

\* C19: the first poll on a stream that begins with a well-formed PUBLISH
\* packet returns that packet's topic and payload unchanged, however the
\* transport splits the bytes into reads, and leaves the stream at the first
\* byte of the next packet.
C19_PollReadsWholePacket ==
    (mq_polls = 1 /\ mq_sent[1].kind = "publish" /\ mq_result.tag # "ReadError") =>
        /\ mq_result = MqSome(mq_sent[1].topic, mq_sent[1].payload)
        /\ mq_in = StreamOf(Tail(mq_sent))

\* C20: a remaining-length field of four bytes that all have the
\* continuation bit set makes poll fail with ProtocolError, without a fifth
\* read of a length byte and without a panic.
C20_FourContinuationBytes ==
    (mq_polls = 1 /\ mq_sent[1].kind = "badlen" /\ mq_result.tag # "ReadError") =>
        /\ mq_result = MqErr("ProtocolError")
        /\ mq_len_reads <= 4

\* C17: however the transport splits the response into reads of at least one
\* byte, a request that reached the server and whose response declares a
\* Content-Length L and carries at least L body bytes returns Ok with the
\* status and headers sent and a body equal to the first L body bytes; what
\* comes after them is dropped.
C17_BodyCompleted ==
    (/\ hc_pc = "done"
     /\ hc_conn.calls = 1
     /\ hc_out = hc_req
     /\ hc_result.tag \notin {"none", "WriteError", "ReadError"}
     /\ Declared(hc_resp) # None
     /\ Len(hc_resp.sent) >= Declared(hc_resp))
    => hc_result = HcResult("Ok", hc_resp.status, hc_resp.headers,
                            SubSeq(hc_resp.sent, 1, Declared(hc_resp)))

\* a two-byte body, none of it read with the headers, and a byte sent after it
C17_Witness ==
    /\ hc_pc = "done"
    /\ hc_result.tag = "Ok"
    /\ Declared(hc_resp) = 2
    /\ Len(hc_resp.sent) = 3
    /\ hc_result.body = SubSeq(hc_resp.sent, 1, 2)
    /\ FindSlice(hc_buf, HeadersEnd) + 4 = Len(hc_buf)

\* C18: the response is read only once the transport has accepted every
\* byte of the assembled request.
C18_WholeRequestSent ==
    hc_pc \in {"headers", "body"} => hc_out = hc_req

\* C21: a poll that meets a PUBLISH header never panics, and a packet with a
\* remaining length above 1024 or below 2, a topic length beyond the packet,
\* or a topic that is not UTF-8 makes it return ProtocolError.
C21_PollNeverPanics ==
    /\ mq_result.tag # "Panic"
    /\ (mq_polls = 1 /\ mq_sent[1] \in Malformed /\ mq_result.tag # "ReadError")
           => mq_result = MqErr("ProtocolError")

\* the number of length bytes the value v needs
MinLengthBytes(v) == IF v < 128 THEN 1 ELSE IF v < 16384 THEN 2 ELSE IF v < 2097152 THEN 3 ELSE 4

\* C25: encode_remaining_length emits 1 to 4 bytes, as few as the value
\* needs, and the remaining-length loop of poll decodes them to the value.
C25_LengthRoundTrip ==
    \A v \in LengthValues :
        LET encoded == encode_remaining_length(<<PUBLISH>>, v)
            bytes == Tail(encoded.buf)
        IN /\ encoded.ok
           /\ Len(bytes) = MinLengthBytes(v)
           /\ Len(bytes) \in 1..4
           /\ (Len(bytes) > 1 => bytes[Len(bytes)] # 0)
           /\ (/\ mq_polls = 1
               /\ mq_sent[1].kind = "len"
               /\ mq_sent[1].bytes = <<PUBLISH>> \o bytes
               /\ mq_result.tag # "ReadError")
              => (mq_len = v /\ mq_len_reads = Len(bytes))

\* the largest value, in four length bytes, has been decoded
C25_Witness ==
    /\ mq_polls = 1
    /\ mq_sent[1].kind = "len"
    /\ mq_len = 268435455
    /\ mq_len_reads = 4

\* the call did not end on a failure of the transport or on a panic
Answered == ms_result \notin {"WriteError", "ReadError", "Panic"}

\* C22: a publish whose topic and payload do not fit the 1024-byte packet
\* buffer, made directly or by the progress publisher, returns ProtocolError
\* and hands nothing to the transport.
C22_OversizePublishRejected ==
    (/\ ms_call.op \in {"publish", "progress"}
     /\ 2 + Len(ms_call.topic) + Len(ms_call.payload) > 1024)
    => /\ ms_result \in {"ProtocolError", "Network(ProtocolError)"}
       /\ ms_written = <<>>

\* C23: connect returns a client exactly when the CONNACK is 0x20, 0x02,
\* any byte, 0x00; after 0x20, 0x02 it refuses exactly on the return codes 1
\* to 5 and reports ProtocolError from 6 on; another first or second byte is
\* a ProtocolError whatever follows.
C23_ConnackDecides ==
    (ms_call.op = "connect" /\ Len(ms_call.reply) = 4 /\ Answered) =>
        LET r == ms_call.reply
            framed == r[1] = 32 /\ r[2] = 2
        IN /\ ms_result = "Ok" <=> (framed /\ r[4] = 0)
           /\ ms_connected <=> ms_result = "Ok"
           /\ framed => (ms_result = "ConnectionRefused" <=> r[4] \in 1..5)
           /\ (framed /\ r[4] >= 6) => ms_result = "ProtocolError"
           /\ ~framed => ms_result = "ProtocolError"
           /\ ms_reads \in 1..4

\* a refusal with the session-present byte set, read one byte at a time
C23_Witness ==
    /\ ms_call.op = "connect"
    /\ ms_call.reply = <<32, 2, 1, 5>>
    /\ ms_result = "ConnectionRefused"
    /\ ms_reads = 4

\* C24: subscribe reads the five SUBACK bytes over as many reads as it takes,
\* returns ConnectionClosed when they end early, Ok exactly when the first
\* byte is 0x90 and bytes 2..3 are the identifier 1, and ProtocolError
\* otherwise; the granted-QoS byte plays no part.
C24_SubackDecides ==
    (ms_call.op = "subscribe" /\ Answered) =>
        LET r == ms_call.reply
        IN IF Len(r) < 5 THEN ms_result = "ConnectionClosed"
           ELSE /\ ms_result = "Ok" <=> (r[1] = 144 /\ r[3] = 0 /\ r[4] = 1)
                /\ ms_result \in {"Ok", "ProtocolError"}
                /\ ms_reads \in 1..5

\* a SUBACK that grants 0x80, read one byte at a time, is accepted
C24_Witness ==
    /\ ms_call.op = "subscribe"
    /\ ms_call.reply = <<144, 3, 0, 1, 128>>
    /\ ms_result = "Ok"
    /\ ms_reads = 5

\* C26: the first poll after the broker has echoed a QoS 0 publish returns
\* the topic and the payload that were published.
C26_EchoDecoded ==
    (/\ mq_sent # <<>>
     /\ mq_polls = 1
     /\ mq_sent[1].kind = "echo"
     /\ ms_call.qos = 0
     /\ Len(ms_call.topic) <= 256
     /\ mq_result.tag # "ReadError")
    => mq_result = MqSome(ms_call.topic, ms_call.payload)

\* C27: publish hands to the transport 0x30, 0x32 or 0x34 by QoS, the
\* remaining length, the topic length in two bytes, the topic and the
\* payload, nothing else, and reads nothing.
C27_PublishFrame ==
    (ms_call.op = "publish" /\ ms_result \in {"Ok", "WriteError"}) =>
        LET t == ms_call.topic
            pl == ms_call.payload
            n == 2 + Len(t) + Len(pl)
            length == IF n < 128 THEN <<n>> ELSE <<128 + (n % 128), n \div 128>>
            frame == <<48 + 2 * ms_call.qos>> \o length \o <<Len(t) \div 256, Len(t) % 256>>
                     \o t \o pl
            out == Concat(ms_written)
        IN /\ ms_reads = 0
           /\ Len(out) <= Len(frame) /\ out = SubSeq(frame, 1, Len(out))
           /\ ms_result = "Ok" => out = frame

\* a QoS 2 publish of a topic and a payload went out whole
C27_Witness ==
    /\ ms_call.op = "publish"
    /\ ms_result = "Ok"
    /\ ms_call.qos = 2
    /\ ms_call.topic = <<97, 47, 98>>
    /\ Len(ms_call.payload) = 2
    /\ Concat(ms_written)[1] = 52

\* C28: a run for an image of size 0, or one that ends beyond the capacity
\* of the storage, has returned InvalidConfig without an erase, a write or
\* an HTTP request.
C28_BoundsRejectedFirst ==
    (/\ runs >= 1 /\ pc = "idle"
     /\ (src.size = 0 \/ src.size = UsizeMax \/ base_offset + src.size > Capacity)) =>
        /\ result = R("InvalidConfig", "-")
        /\ erases = <<>>
        /\ writes = <<>>
        /\ ~requested
        /\ chunkReqs = 0

\* an image that starts inside the storage and ends beyond it, on an engine
\* that erases before it writes
C28_Witness ==
    /\ runs >= 1
    /\ pc = "idle"
    /\ src.size > 0
    /\ base_offset < Capacity
    /\ base_offset + src.size > Capacity
    /\ cfg.erase_before_write
    /\ result = R("InvalidConfig", "-")

\* C30: Ota::new fails with InvalidConfig exactly for chunk_size 0 and for
\* chunk_size above 2048, and otherwise gives an engine with the
\* configuration, in state Idle, with the cancel flag clear.
C30_NewValidates ==
    [][\A c \in ConfigInputs :
          OtaNew(c) => IF c.chunk_size = 0 \/ c.chunk_size > 2048
                       THEN newResult' = "InvalidConfig"
                       ELSE /\ newResult' = "Ok"
                            /\ cfg' = c
                            /\ state' = "Idle"
                            /\ canceled' = FALSE]_vars

\* an engine made with chunk_size 2048, before its first run
C30_Witness ==
    /\ newResult = "Ok"
    /\ cfg.chunk_size = 2048
    /\ state = "Idle"
    /\ ~canceled
    /\ runs = 0

\* C29: arguments whose sum base_offset + size does not fit 32 bits are
\* rejected with InvalidConfig, and an erase is given base_offset + size
\* itself as its end.
C29_EndOffsetChecked ==
    pf_out.result # "-" =>
        LET sum == WideAdd(pf_in.base, pf_in.size)
        IN /\ sum.hi >= 65536 => pf_out.result = "InvalidConfig"
           /\ pf_out.erased => pf_out.erase_to = sum

\* ceil(a / b)
CeilDiv(a, b) == (a + b - 1) \div b

\* the "downloading" events among the published ones
DownloadingEvents == {i \in 1..Len(published) : published[i].state = "downloading"}

\* C31: with a publisher attached, the events of one run are one
\* "downloading" event per chunk written, the i-th after the i-th storage
\* write and carrying the bytes written so far, followed by "finalizing" and
\* "completed" when the run returns Ok, by one "failed" when it returns
\* VerifyFailed, and by nothing otherwise; they are never more than the
\* number of chunks plus two.  Without a publisher nothing is published.
C31_ProgressBounded ==
    LET n == Cardinality(DownloadingEvents)
        tail == SubSeq(published, n + 1, Len(published))
        event(st) == [bytes |-> src.size, total |-> src.size, state |-> st]
    IN /\ ~mqtt => published = <<>>
       /\ n <= Len(writes)
       /\ \A i \in 1..n :
              published[i] = [bytes |-> WrittenLen(i), total |-> src.size,
                              state |-> "downloading"]
       /\ tail = IF Returned /\ result = Ok
                 THEN IF mqtt THEN <<event("finalizing"), event("completed")>> ELSE <<>>
                 ELSE IF Returned /\ result = R("VerifyFailed", "-")
                 THEN IF mqtt THEN <<event("failed")>> ELSE <<>>
                 ELSE <<>>
       /\ runs > 0 => Len(published) <= CeilDiv(src.size, cfg.chunk_size) + 2

\* a run of two chunks with a publisher that returned Ok
C31_Witness ==
    /\ Returned /\ mqtt /\ result = Ok
    /\ Len(writes) = 2 /\ Len(published) = 4
    /\ published[2].state = "downloading" /\ published[4].state = "completed"

\* C37: every erase of a run is of [base_offset, base_offset + size), every
\* write starts at base_offset + start and ends at or before
\* base_offset + size, and the storage bytes outside that range are what
\* they were before the run.
C37_WritesInsideImage ==
    runs > 0 =>
        /\ \A i \in 1..Len(erases) :
               /\ erases[i].from = base_offset
               /\ erases[i].from <= erases[i].to
               /\ erases[i].to <= base_offset + src.size
        /\ \A i \in 1..Len(writes) :
               /\ writes[i].off = base_offset + WrittenLen(i - 1)
               /\ writes[i].off >= base_offset
               /\ writes[i].off + Len(writes[i].data) <= base_offset + src.size
        /\ \A i \in 0..(Capacity - 1) :
               (i < base_offset \/ i >= base_offset + src.size) => storage[i] = OldByte

\* a one-byte image erased and written at offset 1 of the storage
C37_Witness ==
    /\ Returned /\ result = Ok
    /\ base_offset = 1 /\ src.size = 1
    /\ Len(erases) = 1 /\ Len(writes) = 1
    /\ storage[0] = OldByte /\ storage[1] = B1

\* What is left of a call of run_http: the bytes still to download, each
\* counted as one pass through the top of the loop and MaxAttempts requests,
\* and within the current iteration the requests that may still be sent.
Rank ==
    IF pc = "idle" THEN 0
    ELSE (src.size - downloaded) * (MaxAttempts + 2)
         + (IF pc = "loop" THEN MaxAttempts + 2 ELSE MaxAttempts + 1 - attempt)

\* the iterations of the download loop begun so far in the call
Iterations ==
    IF pc = "request" \/ (pc = "idle" /\ chunkReqs > 0 /\ ~resp.accepted)
    THEN Len(writes) + 1
    ELSE Len(writes)

\* (a call for an image of usize::MAX bytes returns before the loop)
C40_Bounded ==
    runs > 0 =>
        IF src.size = UsizeMax
        THEN pc = "idle" /\ downloaded = 0 /\ chunkReqs = 0 /\ Iterations = 0
        ELSE /\ downloaded <= src.size
             /\ chunkReqs <= 3
             /\ Iterations <= CeilDiv(src.size, cfg.chunk_size)
             /\ Rank >= 0
             /\ pc = "request" => (ChunkLen >= 1 /\ downloaded < src.size)

\* C40: every step of a call of run_http brings its return nearer, so the
\* call returns when every request, storage call and publish call does; an
\* iteration of the download loop sends at most three requests and either
\* returns or advances downloaded by exactly len >= 1, so that there are at
\* most ceil(size / chunk_size) iterations, and downloaded never exceeds
\* size.
C40_RunTerminates ==
    [][/\ C40_Bounded'
       /\ pc # "idle" => Rank' < Rank
       /\ (pc = "request" /\ pc' = "loop") =>
              /\ downloaded' = downloaded + ChunkLen
              /\ ChunkLen >= 1
       /\ (pc = "request" /\ pc' = "request") =>
              /\ downloaded' = downloaded
              /\ chunkReqs' = chunkReqs + 1]_vars

\* a run that returned from its second iteration after three requests
C40_Witness ==
    /\ Returned /\ Len(writes) = 1 /\ downloaded = 1 /\ src.size = 2
    /\ chunkReqs = 3 /\ result = R("Network", "ReadError")

\* C32: a call of run_http whose publisher returns errors has the return
\* value, the final state and the storage contents of the same call, against
\* the same server and storage behaviour, with a publisher that always
\* returns Ok; it also makes the same requests and the same publish calls.
\* (A publish call that panics returns nothing: it ends both runs at the
\* same call, since the message does not depend on the publisher's errors.)
C32_PublisherFailuresSwallowed ==
    rp_out.given.state # "-" =>
        /\ rp_out.given.result = rp_out.always.result
        /\ rp_out.given.state = rp_out.always.state
        /\ rp_out.given.storage = rp_out.always.storage
        /\ rp_out.given.requests = rp_out.always.requests
        /\ rp_out.given.publishes = rp_out.always.publishes

\* a run of two chunks that returned Ok although its first and its last
\* publish call returned an error
C32_Witness ==
    /\ rp_out.given.state = "Completed" /\ rp_out.given.result = Ok
    /\ rp_in.size = 2 /\ rp_in.cfg.chunk_size = 1 /\ rp_in.mqtt
    /\ rp_in.pub_errs = {1, 4}
    /\ rp_out.given.publishes = 4 /\ rp_out.given.requests = 2

\* CRC-32/IEEE computed bit by bit: the register starts at 0xFFFFFFFF, each
\* byte is xored into its low byte and the register is then shifted right
\* eight times, xoring in 0xEDB88320 whenever a 1 is shifted out; the
\* checksum is the register xored with 0xFFFFFFFF.
\* (reg.lo < 0 never holds: the test keeps the evaluation shallow)
RECURSIVE ShiftBits(_, _)
ShiftBits(reg, n) ==
    IF n = 0 \/ reg.lo < 0 THEN reg
    ELSE ShiftBits(IF reg.lo % 2 = 1
                   THEN Xor32(Shr32(reg, 1), [hi |-> 60856, lo |-> 33568])
                   ELSE Shr32(reg, 1), n - 1)

RECURSIVE IeeeRegister(_, _)
IeeeRegister(reg, data) ==
    IF data = <<>> \/ reg.lo < 0 THEN reg
    ELSE IeeeRegister(ShiftBits([reg EXCEPT !.lo = Xor16(reg.lo, Head(data))], 8),
                      Tail(data))

IeeeCrc32(data) ==
    Xor32(IeeeRegister([hi |-> 65535, lo |-> 65535], data), [hi |-> 65535, lo |-> 65535])

\* C35: a Crc32 updated with data[0..k] and then data[k..N] finalizes to the
\* value of a Crc32 updated once with data, and that value is the
\* CRC-32/IEEE checksum of data (0xCBF43926 for "123456789").
C35_CrcStreaming ==
    crc_in.k # None =>
        /\ crc_out.split = crc_out.whole
        /\ crc_out.whole = IeeeCrc32(crc_in.data)
        /\ crc_in.data = CheckString => crc_out.whole = [hi |-> 52212, lo |-> 14630]

\* "123456789" split after its fourth byte
C35_Witness ==
    /\ crc_in.k = 4 /\ crc_in.data = CheckString
    /\ crc_out.split = [hi |-> 52212, lo |-> 14630]

\* C39: a poll that returns no message on a header byte that is not PUBLISH
\* has taken the whole of that packet off the transport: the stream is left
\* at the first byte of the next packet, and when that packet is a PUBLISH
\* the next poll that is given all its bytes returns it.
C39_NonPublishDiscarded ==
    /\ (mq_polls = 1 /\ mq_sent[1].kind = "pingresp" /\ mq_result = MqNone)
           => mq_in = StreamOf(Tail(mq_sent))
    /\ (/\ mq_polls = 2 /\ mq_sent[1].kind = "pingresp" /\ Len(mq_sent) >= 2
        /\ mq_sent[2].kind = "publish" /\ mq_result.tag \in {"None", "Some"})
           => mq_result.tag = "Some"

\* C33: Client::request never panics, and when the assembled request is
\* longer than the 2048-byte request buffer it returns WriteError and no
\* byte of it has been handed to the transport.
C33_OverflowIsWriteError ==
    /\ hc_result.tag # "Panic"
    /\ (hc_pc = "done" /\ Len(hc_req) > HTTP_BUF_SIZE)
           => (hc_result = HcErr("WriteError") /\ hc_out = <<>>)

\* C34: a read that the transport fails makes Client::request return
\* ReadError, in the header read and in the body read; a read that meets the
\* end of the stream before any byte of the response, or in the body loop
\* before the declared Content-Length is there, makes it return
\* ConnectionClosed.  So the first request on a connection, when its
\* response declares more body bytes than the server sends before closing,
\* returns ConnectionClosed unless a read fails.
C34_ClosedAndReadErrors ==
    [][/\ \A give \in Gives :
              /\ HttpRead(give, TRUE) => (hc_result' = HcErr("ReadError") /\ hc_pc' = "done")
              /\ (HttpRead(give, FALSE) /\ hc_in = <<>> /\ hc_pc = "headers" /\ hc_buf = <<>>)
                     => (hc_result' = HcErr("ConnectionClosed") /\ hc_pc' = "done")
              /\ (HttpRead(give, FALSE) /\ hc_in = <<>> /\ hc_pc = "body")
                     => (hc_result' = HcErr("ConnectionClosed") /\ hc_pc' = "done")
       /\ (/\ hc_pc # "done" /\ hc_pc' = "done"
           /\ hc_conn.calls = 1 /\ hc_out = hc_req
           /\ Declared(hc_resp) # None /\ Len(hc_resp.sent) < Declared(hc_resp)
           /\ hc_result'.tag # "ReadError")
              => hc_result' = HcErr("ConnectionClosed")]_vars

\* a response that declares two body bytes and ends after the first
C34_Witness ==
    /\ hc_pc = "done" /\ hc_result = HcErr("ConnectionClosed")
    /\ Declared(hc_resp) = 2 /\ Len(hc_resp.sent) = 1
    /\ hc_body = hc_resp.sent /\ hc_in = <<>>

C36_QuotedArgument ==
    /\ sh_in.form \in {"closed", "open"}
           => sh_calls = <<ShellCall("handler", <<CommandName, sh_in.text>>)>>
    /\ sh_in.form = "then"
           => sh_calls = <<ShellCall("handler", <<CommandName, sh_in.text, <<"a">>>>)>>
    /\ sh_in.form = "after"
           => sh_calls = <<ShellCall("handler", <<CommandName, <<"a">>, sh_in.text>>)>>
    /\ sh_in.form \in QuotedForms => (sh_result = "Ok" /\ sh_buffer = <<>>)

\* an unclosed argument with an escaped quote, a space and an escaped n
C36_Witness ==
    /\ sh_in.form = "open"
    /\ sh_in.data = <<"c", " ", "\"", "\\", "\"", " ", "\\", "n", "\r">>
    /\ sh_calls = <<ShellCall("handler", <<CommandName, <<"\"", " ", "\n">>>>)>>

====
